---- MODULE Spec2Model ----
(***************************************************************************)
(* The terminal engine of one-terminal (useTerminalEngine.ts): path        *)
(* resolution over a virtual file system, command dispatch, line recall    *)
(* and the tab-completion state machine.                                   *)
(*                                                                         *)
(* A JavaScript string is a sequence of one-character strings, so that     *)
(* trim, split, join, startsWith, slice and the template literals are      *)
(* computed character by character.  A value that may be null or undefined *)
(* is Null (the empty tuple) or Some(v) (a one-element tuple).             *)
(***************************************************************************)
EXTENDS Integers, Sequences, FiniteSets, TLC

Null == <<>>
Some(v) == <<v>>
Val(o) == o[1]

(* ---------------- string literals of the source ---------------- *)
S_help == <<"h", "e", "l", "p">>
S_ls == <<"l", "s">>
S_cd == <<"c", "d">>
S_cat == <<"c", "a", "t">>
S_echo == <<"e", "c", "h", "o">>
S_pwd == <<"p", "w", "d">>
S_clear == <<"c", "l", "e", "a", "r">>
S_dot == <<".">>
S_dotdot == <<".", ".">>
S_slash == <<"/">>
S_dash == <<"-">>
S_space == <<" ">>
S_empty == <<>>
S_undefined == <<"u", "n", "d", "e", "f", "i", "n", "e", "d">>
S_lsCannotAccess == <<"l", "s", ":", " ", "c", "a", "n", "n", "o", "t", " ", "a", "c", "c", "e", "s", "s", " ", "'">>
S_quoteNoSuchFileOrDirectory == <<"'", ":", " ", "N", "o", " ", "s", "u", "c", "h", " ", "f", "i", "l", "e", " ", "o", "r", " ", "d", "i", "r", "e", "c", "t", "o", "r", "y">>
S_twoSpaces == <<" ", " ">>
S_emptyDir == <<"(", "e", "m", "p", "t", "y", ")">>
S_unknownNodeType == <<"(", "u", "n", "k", "n", "o", "w", "n", " ", "n", "o", "d", "e", " ", "t", "y", "p", "e", ")">>
S_cdOldpwdNotSet == <<"c", "d", ":", " ", "O", "L", "D", "P", "W", "D", " ", "n", "o", "t", " ", "s", "e", "t">>
S_cdColon == <<"c", "d", ":", " ">>
S_noSuchFileOrDirectory == <<":", " ", "N", "o", " ", "s", "u", "c", "h", " ", "f", "i", "l", "e", " ", "o", "r", " ", "d", "i", "r", "e", "c", "t", "o", "r", "y">>
S_cdNotADirectory == <<"c", "d", ":", " ", "n", "o", "t", " ", "a", " ", "d", "i", "r", "e", "c", "t", "o", "r", "y", ":", " ">>
S_catMissingOperand == <<"c", "a", "t", ":", " ", "m", "i", "s", "s", "i", "n", "g", " ", "f", "i", "l", "e", " ", "o", "p", "e", "r", "a", "n", "d">>
S_catColon == <<"c", "a", "t", ":", " ">>
S_noSuchFile == <<":", " ", "N", "o", " ", "s", "u", "c", "h", " ", "f", "i", "l", "e">>
S_isADirectory == <<":", " ", "I", "s", " ", "a", " ", "d", "i", "r", "e", "c", "t", "o", "r", "y">>
S_commands == <<"C", "o", "m", "m", "a", "n", "d", "s", ":", " ">>
S_commaSpace == <<",", " ">>
S_commandNotFound == <<"c", "o", "m", "m", "a", "n", "d", " ", "n", "o", "t", " ", "f", "o", "u", "n", "d", ":", " ">>
S_errorExecuting == <<"e", "r", "r", "o", "r", ":", " ", "e", "x", "e", "c", "u", "t", "i", "n", "g", " ">>
S_blank == <<"_", "b", "l", "a", "n", "k">>

(* ---------------- JavaScript string and array primitives ---------------- *)

\* /\s/ : the whitespace the model's keyboard can produce
isWhitespace(c) == c = " "

RECURSIVE trimStart(_)
trimStart(s) ==
  IF s # <<>> /\ isWhitespace(Head(s)) THEN trimStart(Tail(s)) ELSE s

RECURSIVE trimEnd(_)
trimEnd(s) ==
  IF s # <<>> /\ isWhitespace(s[Len(s)]) THEN trimEnd(SubSeq(s, 1, Len(s) - 1)) ELSE s

\* String.prototype.trim
trim(s) == trimEnd(trimStart(s))

\* String.prototype.indexOf for a one-character needle (0 when absent, 1-based)
indexOf(s, c) ==
  IF \E i \in 1..Len(s) : s[i] = c
  THEN CHOOSE i \in 1..Len(s) : s[i] = c /\ \A j \in 1..(i - 1) : s[j] # c
  ELSE 0

\* String.prototype.lastIndexOf for a one-character needle (0 when absent, 1-based)
lastIndexOf(s, c) ==
  IF \E i \in 1..Len(s) : s[i] = c
  THEN CHOOSE i \in 1..Len(s) : s[i] = c /\ \A j \in (i + 1)..Len(s) : s[j] # c
  ELSE 0

\* String.prototype.includes for a one-character needle
includes(s, c) == \E i \in 1..Len(s) : s[i] = c

\* String.prototype.startsWith
startsWith(s, p) == Len(p) <= Len(s) /\ SubSeq(s, 1, Len(p)) = p

RECURSIVE split(_, _)
\* String.prototype.split with a one-character separator: every piece, empty ones too
split(s, sep) ==
  LET i == indexOf(s, sep)
  IN IF i = 0 THEN <<s>>
     ELSE <<SubSeq(s, 1, i - 1)>> \o split(SubSeq(s, i + 1, Len(s)), sep)

\* Array.prototype.filter(Boolean) on an array of strings: drops the empty strings
filterBoolean(a) == SelectSeq(a, LAMBDA x : x # <<>>)

\* String.prototype.split(/\s+/): a run of whitespace is one separator, so only
\* the first and the last piece can be empty
splitWhitespace(s) ==
  LET p == split(s, " ")
      n == Len(p)
  IN IF n <= 2 THEN p
     ELSE <<p[1]>> \o filterBoolean(SubSeq(p, 2, n - 1)) \o <<p[n]>>

RECURSIVE join(_, _)
\* Array.prototype.join
join(a, sep) ==
  IF a = <<>> THEN <<>>
  ELSE IF Len(a) = 1 THEN a[1]
  ELSE a[1] \o sep \o join(Tail(a), sep)

\* Array.prototype.includes
arrayIncludes(a, x) == \E i \in 1..Len(a) : a[i] = x

\* UTF-16 code units of the characters the model uses, in ascending order
CodeUnits ==
  <<" ", "'", "(", ")", ",", "-", ".", "/", ":", "D", "I", "L", "N", "O", "P", "W", "_",
    "a", "b", "c", "d", "e", "f", "g", "h", "i", "j", "k", "l", "m", "n", "o", "p", "q",
    "r", "s", "t", "u", "v", "w", "x", "y", "z">>

charCode(c) == CHOOSE i \in 1..Len(CodeUnits) : CodeUnits[i] = c

RECURSIVE stringLess(_, _)
\* the default comparison of Array.prototype.sort: by UTF-16 code units
stringLess(a, b) ==
  IF b = <<>> THEN FALSE
  ELSE IF a = <<>> THEN TRUE
  ELSE IF Head(a) = Head(b) THEN stringLess(Tail(a), Tail(b))
  ELSE charCode(Head(a)) < charCode(Head(b))

RECURSIVE sort(_)
\* Array.prototype.sort() with no comparator (insertion into a sorted tail)
sort(a) ==
  IF a = <<>> THEN <<>>
  ELSE LET rest == sort(Tail(a))
           x == Head(a)
           k == Cardinality({i \in 1..Len(rest) : ~ stringLess(x, rest[i])})
       IN SubSeq(rest, 1, k) \o <<x>> \o SubSeq(rest, k + 1, Len(rest))

(* ---------------- JavaScript objects ---------------- *)

\* An object used as a dictionary (DirectoryNode.entries, ExtraCommands) is the
\* sequence of its own properties [name, value] in insertion order; being a
\* plain object it also inherits the members of Object.prototype.
ObjectPrototypeKeys ==
  { <<"c", "o", "n", "s", "t", "r", "u", "c", "t", "o", "r">>,
    <<"t", "o", "S", "t", "r", "i", "n", "g">>,
    <<"t", "o", "L", "o", "c", "a", "l", "e", "S", "t", "r", "i", "n", "g">>,
    <<"v", "a", "l", "u", "e", "O", "f">>,
    <<"h", "a", "s", "O", "w", "n", "P", "r", "o", "p", "e", "r", "t", "y">>,
    <<"i", "s", "P", "r", "o", "t", "o", "t", "y", "p", "e", "O", "f">>,
    <<"p", "r", "o", "p", "e", "r", "t", "y", "I", "s", "E", "n", "u", "m", "e", "r", "a", "b", "l", "e">>,
    <<"_", "_", "p", "r", "o", "t", "o", "_", "_">>,
    <<"_", "_", "d", "e", "f", "i", "n", "e", "G", "e", "t", "t", "e", "r", "_", "_">>,
    <<"_", "_", "d", "e", "f", "i", "n", "e", "S", "e", "t", "t", "e", "r", "_", "_">>,
    <<"_", "_", "l", "o", "o", "k", "u", "p", "G", "e", "t", "t", "e", "r", "_", "_">>,
    <<"_", "_", "l", "o", "o", "k", "u", "p", "S", "e", "t", "t", "e", "r", "_", "_">> }

ownKeys(obj) == [i \in 1..Len(obj) |-> obj[i].name]

hasOwn(obj, name) == \E i \in 1..Len(obj) : obj[i].name = name

ownValue(obj, name) == obj[CHOOSE i \in 1..Len(obj) : obj[i].name = name].value

\* `name in obj`: own properties and inherited ones
hasProperty(obj, name) == hasOwn(obj, name) \/ name \in ObjectPrototypeKeys

\* a member of Object.prototype read as a file system node: it has no `kind`
PrototypeNode == [kind |-> "undefined"]

\* a member of Object.prototype read as a command definition: it has no `run`
\* and no `completion`
PrototypeDefinition == [run |-> Null, completion |-> Null]

\* obj[name] for a name that is `in` obj, `inherited` being what a member of
\* Object.prototype looks like to the reader
getProperty(obj, name, inherited) ==
  IF hasOwn(obj, name) THEN ownValue(obj, name) ELSE inherited

(* ---------------- file system nodes (types.ts) ---------------- *)

TextFile(content) == [kind |-> "file", fileType |-> "text", content |-> content]

LinkFile(href, label, target) ==
  [kind |-> "file", fileType |-> "link", href |-> href, label |-> label, target |-> target]

Directory(entries) == [kind |-> "directory", entries |-> entries]

Entry(name, value) == [name |-> name, value |-> value]

\* the type guards take `FSNode | undefined | null`: Null or Some(node)
isDirectory(node) == node # Null /\ Val(node).kind = "directory"

isFile(node) == node # Null /\ Val(node).kind = "file"

isTextFile(node) == isFile(node) /\ Val(node).fileType = "text"

isLinkFile(node) == isFile(node) /\ Val(node).fileType = "link"

(* ---------------- path resolver ---------------- *)

RECURSIVE normalizeStack(_, _)
\* the loop of normalizePath over `parts`, `stack` being the stack so far
normalizeStack(parts, stack) ==
  IF parts = <<>> THEN stack
  ELSE LET part == Head(parts)
       IN IF part = S_dot THEN normalizeStack(Tail(parts), stack)
          ELSE IF part = S_dotdot
          THEN normalizeStack(Tail(parts),
                              IF stack = <<>> THEN stack ELSE SubSeq(stack, 1, Len(stack) - 1))
          ELSE normalizeStack(Tail(parts), Append(stack, part))

\* normalizePath that forgets to resolve `.` and `..`
normalizePath_keepDots(p) ==
  S_slash \o join(filterBoolean(split(p, "/")), S_slash)
\* normalizePath that resolves only the first `..` and keeps the later ones
normalizePath_popOnce(p) ==
  LET parts == filterBoolean(split(p, "/"))
      firstUp == IF arrayIncludes(parts, S_dotdot)
                 THEN CHOOSE i \in 1..Len(parts) :
                        parts[i] = S_dotdot /\ \A j \in 1..(i - 1) : parts[j] # S_dotdot
                 ELSE Len(parts)
      rest == SelectSeq(SubSeq(parts, firstUp + 1, Len(parts)), LAMBDA part : part # S_dot)
  IN S_slash \o join(normalizeStack(SubSeq(parts, 1, firstUp), <<>>) \o rest, S_slash)

\* normalizePath that keeps a leading `..` as a segment instead of ignoring it
normalizePath_underflow(p) ==
  LET parts == SelectSeq(filterBoolean(split(p, "/")), LAMBDA part : part # S_dot)
  IN IF parts # <<>> /\ Head(parts) = S_dotdot
     THEN S_slash \o join(<<S_dotdot>> \o normalizeStack(Tail(parts), <<>>), S_slash)
     ELSE S_slash \o join(normalizeStack(parts, <<>>), S_slash)

normalizePath(p) ==
  S_slash \o join(normalizeStack(filterBoolean(split(p, "/")), <<>>), S_slash)

RECURSIVE longestCommonPrefixFrom(_, _)
\* the loop of longestCommonPrefix over strings.slice(1), `prefix` being the prefix so far
longestCommonPrefixFrom(prefix, strings) ==
  IF strings = <<>> THEN prefix
  ELSE LET s == Head(strings)
           agree == {i \in 0..Len(prefix) :
                       i <= Len(s) /\ \A j \in 1..i : prefix[j] = s[j]}
           i == CHOOSE k \in agree : \A m \in agree : m <= k
           next == SubSeq(prefix, 1, i)
       IN IF next = <<>> THEN next ELSE longestCommonPrefixFrom(next, Tail(strings))

\* longestCommonPrefix that takes the first string for the prefix of all
longestCommonPrefix_first(strings) ==
  IF strings = <<>> THEN <<>> ELSE Head(strings)

longestCommonPrefix(strings) ==
  IF strings = <<>> THEN <<>> ELSE longestCommonPrefixFrom(Head(strings), Tail(strings))

(* ---------------- the engine's state (useTerminalEngine) ---------------- *)

VARIABLES
  fs,                \* the DirectoryNode given to the hook
  extraCommands,     \* the ExtraCommands given to the hook, Null when omitted
  path,              \* useState: current path
  history,           \* useState: scrollback, a sequence of HistoryEntry
  input,             \* useState: live input buffer
  completion,        \* useState: CompletionState, or Null
  historyIndex,      \* useState: recall index, or Null
  cwdPathPrev,       \* useState: previous directory, or Null
  previousCommands   \* previousCommandsRef.current: the recall stack

vars == <<fs, extraCommands, path, history, input, completion, historyIndex,
          cwdPathPrev, previousCommands>>

BUILTIN_COMMANDS == <<S_help, S_ls, S_cd, S_cat, S_echo, S_pwd, S_clear>>

\* React.ReactNode values an entry can carry; `out` omitted is OutUndefined
OutUndefined == [type |-> "undefined"]

OutText(s) == [type |-> "string", value |-> s]

OutAnchor(href, target, children) ==
  [type |-> "a", href |-> href, target |-> target, rel |-> "noreferrer", children |-> children]

RECURSIVE walk(_, _)
\* the loop shared by cwdNode and getNodeAt: Null where the loop returns early
walk(current, segments) ==
  IF segments = <<>> THEN Some(current)
  ELSE IF ~ isDirectory(Some(current)) \/ ~ hasProperty(current.entries, Head(segments))
  THEN Null
  ELSE walk(getProperty(current.entries, Head(segments), PrototypeNode), Tail(segments))

cwdNode ==
  LET current == walk(fs, filterBoolean(split(normalizePath(path), "/")))
  IN IF isDirectory(current) THEN current ELSE Null

allCommands ==
  BUILTIN_COMMANDS \o (IF extraCommands = Null THEN <<>> ELSE ownKeys(Val(extraCommands)))
\* resolvePath that joins an absolute candidate onto the current path too
resolvePath_alwaysJoins(p) ==
  IF p = <<>> \/ p = S_dot THEN path
  ELSE normalizePath(path \o S_slash \o p)

resolvePath(p) ==
  IF p = <<>> \/ p = S_dot THEN path
  ELSE IF startsWith(p, S_slash) THEN normalizePath(p)
  ELSE normalizePath(path \o S_slash \o p)

getNodeAt(p) == walk(fs, filterBoolean(split(normalizePath(p), "/")))

(* ---------------- run ---------------- *)

makeEntry(trimmed, out) == [in |-> trimmed, out |-> out]

\* One call of run: the entry it returns, and what it leaves in the path, the
\* previous directory and the scrollback (historyCleared: setHistory([]) ran).
Returns(trimmed, out) ==
  [entry |-> makeEntry(trimmed, out), path |-> path, cwdPathPrev |-> cwdPathPrev,
   historyCleared |-> FALSE]

\* extraCommands?.[cmd]: Null when there is no registry or no such property
extraDefinition(cmd) ==
  IF extraCommands = Null \/ ~ hasProperty(Val(extraCommands), cmd) THEN Null
  ELSE Some(getProperty(Val(extraCommands), cmd, PrototypeDefinition))

\* the try/catch around extraDef.run: calling a missing `run` throws a TypeError
runExtra(trimmed, cmd, def) ==
  IF def.run = Null \/ Val(def.run).throws
  THEN Returns(trimmed, OutText(S_errorExecuting \o cmd))
  ELSE Returns(trimmed, Val(def.run).out)

runClear(trimmed) ==
  [entry |-> makeEntry(trimmed, OutUndefined), path |-> path, cwdPathPrev |-> cwdPathPrev,
   historyCleared |-> TRUE]

runLs(trimmed, args) ==
  LET target == IF args = <<>> THEN S_dot ELSE args[1]
      targetPath == resolvePath(target)
      node == getNodeAt(targetPath)
  IN IF node = Null
     THEN Returns(trimmed, OutText(S_lsCannotAccess \o target \o S_quoteNoSuchFileOrDirectory))
     ELSE IF isFile(node) THEN Returns(trimmed, OutText(target))
     ELSE IF isDirectory(node)
     THEN LET entries == sort(ownKeys(Val(node).entries))
              joined == join(entries, S_twoSpaces)
          IN Returns(trimmed, OutText(IF joined = <<>> THEN S_emptyDir ELSE joined))
     ELSE Returns(trimmed, OutText(S_unknownNodeType))

\* runCdDash that echoes the path it leaves instead of the one it enters
runCdDash_echoOld(trimmed) ==
  IF cwdPathPrev = Null \/ cwdPathPrev = Some(<<>>)
  THEN Returns(trimmed, OutText(S_cdOldpwdNotSet))
  ELSE LET prevNode == getNodeAt(Val(cwdPathPrev))
       IN IF prevNode = Null \/ ~ isDirectory(prevNode)
          THEN Returns(trimmed, OutText(S_cdColon \o Val(cwdPathPrev) \o S_noSuchFileOrDirectory))
          ELSE [entry |-> makeEntry(trimmed, OutText(path)),
                path |-> Val(cwdPathPrev), cwdPathPrev |-> Some(path),
                historyCleared |-> FALSE]
\* runCdDash that goes back to a previous directory that is not in the tree
runCdDash_movesToMissing(trimmed) ==
  IF cwdPathPrev = Null \/ cwdPathPrev = Some(<<>>)
  THEN Returns(trimmed, OutText(S_cdOldpwdNotSet))
  ELSE LET prevNode == getNodeAt(Val(cwdPathPrev))
       IN IF prevNode = Null \/ ~ isDirectory(prevNode)
          THEN [entry |-> makeEntry(trimmed, OutText(S_cdColon \o Val(cwdPathPrev)
                                                      \o S_noSuchFileOrDirectory)),
                path |-> Val(cwdPathPrev), cwdPathPrev |-> Some(path),
                historyCleared |-> FALSE]
          ELSE [entry |-> makeEntry(trimmed, OutText(Val(cwdPathPrev))),
                path |-> Val(cwdPathPrev), cwdPathPrev |-> Some(path),
                historyCleared |-> FALSE]
\* runCdDash that goes back without remembering the path it leaves
runCdDash_keepsPrev(trimmed) ==
  IF cwdPathPrev = Null \/ cwdPathPrev = Some(<<>>)
  THEN Returns(trimmed, OutText(S_cdOldpwdNotSet))
  ELSE LET prevNode == getNodeAt(Val(cwdPathPrev))
       IN IF prevNode = Null \/ ~ isDirectory(prevNode)
          THEN Returns(trimmed, OutText(S_cdColon \o Val(cwdPathPrev) \o S_noSuchFileOrDirectory))
          ELSE [entry |-> makeEntry(trimmed, OutText(Val(cwdPathPrev))),
                path |-> Val(cwdPathPrev), cwdPathPrev |-> cwdPathPrev,
                historyCleared |-> FALSE]

runCdDash(trimmed) ==
  IF cwdPathPrev = Null \/ cwdPathPrev = Some(<<>>)
  THEN Returns(trimmed, OutText(S_cdOldpwdNotSet))
  ELSE LET prevNode == getNodeAt(Val(cwdPathPrev))
       IN IF prevNode = Null \/ ~ isDirectory(prevNode)
          THEN Returns(trimmed, OutText(S_cdColon \o Val(cwdPathPrev) \o S_noSuchFileOrDirectory))
          ELSE [entry |-> makeEntry(trimmed, OutText(Val(cwdPathPrev))),
                path |-> Val(cwdPathPrev), cwdPathPrev |-> Some(path),
                historyCleared |-> FALSE]
\* runCdTarget that moves to a target that is not in the tree
runCdTarget_movesOnFailure(trimmed, rawTarget) ==
  LET target == IF rawTarget = Null THEN S_slash ELSE Val(rawTarget)
      targetPath == resolvePath(target)
      node == getNodeAt(targetPath)
  IN IF node = Null
     THEN [entry |-> makeEntry(trimmed, OutText(S_cdColon \o target \o S_noSuchFileOrDirectory)),
           path |-> targetPath, cwdPathPrev |-> cwdPathPrev, historyCleared |-> FALSE]
     ELSE IF ~ isDirectory(node)
     THEN Returns(trimmed, OutText(S_cdNotADirectory
                                   \o (IF rawTarget = Null THEN S_undefined ELSE Val(rawTarget))))
     ELSE [entry |-> makeEntry(trimmed, OutUndefined),
           path |-> targetPath, cwdPathPrev |-> Some(path), historyCleared |-> FALSE]

\* runCdTarget that forgets setCwdPathPrev(path)
runCdTarget_stalePrev(trimmed, rawTarget) ==
  LET target == IF rawTarget = Null THEN S_slash ELSE Val(rawTarget)
      targetPath == resolvePath(target)
      node == getNodeAt(targetPath)
  IN IF node = Null
     THEN Returns(trimmed, OutText(S_cdColon \o target \o S_noSuchFileOrDirectory))
     ELSE IF ~ isDirectory(node)
     THEN Returns(trimmed, OutText(S_cdNotADirectory
                                   \o (IF rawTarget = Null THEN S_undefined ELSE Val(rawTarget))))
     ELSE [entry |-> makeEntry(trimmed, OutUndefined),
           path |-> targetPath, cwdPathPrev |-> cwdPathPrev, historyCleared |-> FALSE]
\* runCdTarget that also enters a target that is not a directory
runCdTarget_entersFiles(trimmed, rawTarget) ==
  LET target == IF rawTarget = Null THEN S_slash ELSE Val(rawTarget)
      targetPath == resolvePath(target)
      node == getNodeAt(targetPath)
  IN IF node = Null
     THEN Returns(trimmed, OutText(S_cdColon \o target \o S_noSuchFileOrDirectory))
     ELSE [entry |-> makeEntry(trimmed, OutUndefined),
           path |-> targetPath, cwdPathPrev |-> Some(path), historyCleared |-> FALSE]

runCdTarget(trimmed, rawTarget) ==
  LET target == IF rawTarget = Null THEN S_slash ELSE Val(rawTarget)
      targetPath == resolvePath(target)
      node == getNodeAt(targetPath)
  IN IF node = Null
     THEN Returns(trimmed, OutText(S_cdColon \o target \o S_noSuchFileOrDirectory))
     ELSE IF ~ isDirectory(node)
     THEN Returns(trimmed, OutText(S_cdNotADirectory
                                   \o (IF rawTarget = Null THEN S_undefined ELSE Val(rawTarget))))
     ELSE [entry |-> makeEntry(trimmed, OutUndefined),
           path |-> targetPath, cwdPathPrev |-> Some(path), historyCleared |-> FALSE]
\* runCd that takes `-` for the name of a directory
runCd_dashAsTarget(trimmed, args) ==
  LET rawTarget == IF args = <<>> THEN Null ELSE Some(args[1])
  IN runCdTarget(trimmed, rawTarget)

runCd(trimmed, args) ==
  LET rawTarget == IF args = <<>> THEN Null ELSE Some(args[1])
  IN IF rawTarget = Some(S_dash) THEN runCdDash(trimmed) ELSE runCdTarget(trimmed, rawTarget)

runCat(trimmed, args) ==
  IF args = <<>> \/ args[1] = <<>> THEN Returns(trimmed, OutText(S_catMissingOperand))
  ELSE LET target == args[1]
           node == getNodeAt(resolvePath(target))
       IN IF node = Null THEN Returns(trimmed, OutText(S_catColon \o target \o S_noSuchFile))
          ELSE IF isDirectory(node)
          THEN Returns(trimmed, OutText(S_catColon \o target \o S_isADirectory))
          ELSE IF isTextFile(node) THEN Returns(trimmed, OutText(Val(node).content))
          ELSE IF isLinkFile(node)
          THEN Returns(trimmed,
                       OutAnchor(Val(node).href,
                                 IF Val(node).target = Null THEN S_blank ELSE Val(Val(node).target),
                                 IF Val(node).label = Null THEN Val(node).href
                                 ELSE Val(Val(node).label)))
          ELSE Returns(trimmed, OutText(<<>>))

run(line) ==
  LET trimmed == trim(line)
      tokens == splitWhitespace(trimmed)
      cmd == Head(tokens)
      args == Tail(tokens)
      extraDef == extraDefinition(cmd)
  IN IF trimmed = <<>> THEN Returns(trimmed, OutUndefined)
     ELSE IF extraDef # Null THEN runExtra(trimmed, cmd, Val(extraDef))
     ELSE IF cmd = S_pwd THEN Returns(trimmed, OutText(path))
     ELSE IF cmd = S_clear THEN runClear(trimmed)
     ELSE IF cmd = S_ls THEN runLs(trimmed, args)
     ELSE IF cmd = S_cd THEN runCd(trimmed, args)
     ELSE IF cmd = S_cat THEN runCat(trimmed, args)
     ELSE IF cmd = S_echo THEN Returns(trimmed, OutText(join(args, S_space)))
     ELSE IF cmd = S_help THEN Returns(trimmed, OutText(S_commands \o join(allCommands, S_commaSpace)))
     ELSE Returns(trimmed, OutText(S_commandNotFound \o cmd))

(* ---------------- bounds of the model ---------------- *)

\* submit and interrupt are taken only if they leave at most this many entries
\* in the scrollback
MaxHistory == 2

\* submit is taken only if it leaves at most this many lines in the recall stack
MaxRecall == 2

(* ---------------- submit, navigateHistory, interrupt, setInput ---------------- *)

\* the setter of the input buffer returned by the hook: the user types or edits
setInput(v) ==
  /\ input' = v
  /\ UNCHANGED <<fs, extraCommands, path, history, completion, historyIndex,
                 cwdPathPrev, previousCommands>>
\* submit whose `clear` empties the tree as well as the scrollback
submit_clearDropsTree ==
  /\ LET trimmed == trim(input)
         r == run(input)
         cmd == Head(splitWhitespace(trimmed))
         scrollback == IF r.historyCleared THEN <<>> ELSE history
     IN /\ path' = r.path
        /\ cwdPathPrev' = r.cwdPathPrev
        /\ IF cmd = S_clear
           THEN /\ history' = scrollback
                /\ fs' = Directory(<<>>)
                /\ UNCHANGED previousCommands
           ELSE /\ previousCommands' =
                     IF trimmed # <<>> THEN Append(previousCommands, trimmed)
                     ELSE previousCommands
                /\ history' = Append(scrollback, r.entry)
                /\ UNCHANGED fs
        /\ input' = <<>>
        /\ historyIndex' = Null
        /\ completion' = Null
  /\ Len(history') <= MaxHistory
  /\ Len(previousCommands') <= MaxRecall
  /\ UNCHANGED extraCommands

\* submit whose `clear` leaves the recall index and the completion state
submit_clearKeepsState ==
  /\ LET trimmed == trim(input)
         r == run(input)
         cmd == Head(splitWhitespace(trimmed))
         scrollback == IF r.historyCleared THEN <<>> ELSE history
     IN /\ path' = r.path
        /\ cwdPathPrev' = r.cwdPathPrev
        /\ IF cmd = S_clear
           THEN /\ history' = scrollback
                /\ UNCHANGED <<previousCommands, historyIndex, completion>>
           ELSE /\ previousCommands' =
                     IF trimmed # <<>> THEN Append(previousCommands, trimmed)
                     ELSE previousCommands
                /\ history' = Append(scrollback, r.entry)
                /\ historyIndex' = Null
                /\ completion' = Null
        /\ input' = <<>>
  /\ Len(history') <= MaxHistory
  /\ Len(previousCommands') <= MaxRecall
  /\ UNCHANGED <<fs, extraCommands>>

\* submit that pushes the buffer as typed to the recall stack
submit_pushRaw ==
  /\ LET trimmed == trim(input)
         r == run(input)
         cmd == Head(splitWhitespace(trimmed))
         scrollback == IF r.historyCleared THEN <<>> ELSE history
     IN /\ path' = r.path
        /\ cwdPathPrev' = r.cwdPathPrev
        /\ IF cmd = S_clear
           THEN /\ history' = scrollback
                /\ UNCHANGED previousCommands
           ELSE /\ previousCommands' =
                     IF trimmed # <<>> THEN Append(previousCommands, input)
                     ELSE previousCommands
                /\ history' = Append(scrollback, r.entry)
        /\ input' = <<>>
        /\ historyIndex' = Null
        /\ completion' = Null
  /\ Len(history') <= MaxHistory
  /\ Len(previousCommands') <= MaxRecall
  /\ UNCHANGED <<fs, extraCommands>>

\* submit that appends the entry of `clear` like any other
submit_echoClear ==
  /\ LET trimmed == trim(input)
         r == run(input)
         cmd == Head(splitWhitespace(trimmed))
         scrollback == IF r.historyCleared THEN <<>> ELSE history
     IN /\ path' = r.path
        /\ cwdPathPrev' = r.cwdPathPrev
        /\ previousCommands' =
             IF trimmed # <<>> /\ cmd # S_clear THEN Append(previousCommands, trimmed)
             ELSE previousCommands
        /\ history' = Append(scrollback, r.entry)
        /\ input' = <<>>
        /\ historyIndex' = Null
        /\ completion' = Null
  /\ Len(history') <= MaxHistory
  /\ Len(previousCommands') <= MaxRecall
  /\ UNCHANGED <<fs, extraCommands>>

\* submit that pushes the line to the recall stack before it looks for `clear`
submit_recallClear ==
  /\ LET trimmed == trim(input)
         r == run(input)
         cmd == Head(splitWhitespace(trimmed))
         scrollback == IF r.historyCleared THEN <<>> ELSE history
     IN /\ path' = r.path
        /\ cwdPathPrev' = r.cwdPathPrev
        /\ previousCommands' =
             IF trimmed # <<>> THEN Append(previousCommands, trimmed)
             ELSE previousCommands
        /\ history' = IF cmd = S_clear THEN scrollback ELSE Append(scrollback, r.entry)
        /\ input' = <<>>
        /\ historyIndex' = Null
        /\ completion' = Null
  /\ Len(history') <= MaxHistory
  /\ Len(previousCommands') <= MaxRecall
  /\ UNCHANGED <<fs, extraCommands>>

\* the handler of Enter, whatever the length of the scrollback and of the
\* recall stack it leaves
submitLine ==
  /\ LET trimmed == trim(input)
         r == run(input)
         cmd == Head(splitWhitespace(trimmed))
         scrollback == IF r.historyCleared THEN <<>> ELSE history
     IN /\ path' = r.path
        /\ cwdPathPrev' = r.cwdPathPrev
        /\ IF cmd = S_clear
           THEN /\ history' = scrollback
                /\ UNCHANGED previousCommands
           ELSE /\ previousCommands' =
                     IF trimmed # <<>> THEN Append(previousCommands, trimmed)
                     ELSE previousCommands
                /\ history' = Append(scrollback, r.entry)
        /\ input' = <<>>
        /\ historyIndex' = Null
        /\ completion' = Null
  /\ UNCHANGED <<fs, extraCommands>>

submit ==
  /\ submitLine
  /\ Len(history') <= MaxHistory
  /\ Len(previousCommands') <= MaxRecall

\* what one call of navigateHistory leaves in (historyIndex, input)
Navigated(idx, newInput) == [historyIndex |-> idx, input |-> newInput]
\* navigateHistory whose first `up` loads the oldest line
navigateFrom_oldestFirst(commands, index, buffer, direction) ==
  IF commands = <<>> THEN Navigated(index, buffer)
  ELSE IF index = Null
  THEN IF direction = "up"
       THEN Navigated(Some(0), commands[1])
       ELSE Navigated(index, buffer)
  ELSE IF direction = "up"
  THEN LET nextIdx == IF Val(index) - 1 > 0 THEN Val(index) - 1 ELSE 0
       IN Navigated(Some(nextIdx), commands[nextIdx + 1])
  ELSE LET lastIdx == Len(commands) - 1
       IN IF Val(index) >= lastIdx THEN Navigated(Null, <<>>)
          ELSE LET nextIdx == Val(index) + 1
               IN Navigated(Some(nextIdx), commands[nextIdx + 1])

\* navigateHistory whose `down` at the newest line keeps the recall index
navigateFrom_downStays(commands, index, buffer, direction) ==
  IF commands = <<>> THEN Navigated(index, buffer)
  ELSE IF index = Null
  THEN IF direction = "up"
       THEN LET idx == Len(commands) - 1
            IN Navigated(Some(idx), commands[idx + 1])
       ELSE Navigated(index, buffer)
  ELSE IF direction = "up"
  THEN LET nextIdx == IF Val(index) - 1 > 0 THEN Val(index) - 1 ELSE 0
       IN Navigated(Some(nextIdx), commands[nextIdx + 1])
  ELSE LET lastIdx == Len(commands) - 1
       IN IF Val(index) >= lastIdx THEN Navigated(index, <<>>)
          ELSE LET nextIdx == Val(index) + 1
               IN Navigated(Some(nextIdx), commands[nextIdx + 1])
\* navigateFrom where ArrowDown with no line recalled jumps to the oldest line
navigateFrom_downWraps(commands, index, buffer, direction) ==
  IF commands = <<>> THEN Navigated(index, buffer)
  ELSE IF index = Null
  THEN IF direction = "up"
       THEN LET idx == Len(commands) - 1
            IN Navigated(Some(idx), commands[idx + 1])
       ELSE Navigated(Some(0), commands[1])
  ELSE IF direction = "up"
  THEN LET nextIdx == IF Val(index) - 1 > 0 THEN Val(index) - 1 ELSE 0
       IN Navigated(Some(nextIdx), commands[nextIdx + 1])
  ELSE LET lastIdx == Len(commands) - 1
       IN IF Val(index) >= lastIdx THEN Navigated(Null, <<>>)
          ELSE LET nextIdx == Val(index) + 1
               IN Navigated(Some(nextIdx), commands[nextIdx + 1])

\* the handler's body over the recall stack, the recall index and the buffer
navigateFrom(commands, index, buffer, direction) ==
  IF commands = <<>> THEN Navigated(index, buffer)
  ELSE IF index = Null
  THEN IF direction = "up"
       THEN LET idx == Len(commands) - 1
            IN Navigated(Some(idx), commands[idx + 1])
       ELSE Navigated(index, buffer)
  ELSE IF direction = "up"
  THEN LET nextIdx == IF Val(index) - 1 > 0 THEN Val(index) - 1 ELSE 0
       IN Navigated(Some(nextIdx), commands[nextIdx + 1])
  ELSE LET lastIdx == Len(commands) - 1
       IN IF Val(index) >= lastIdx THEN Navigated(Null, <<>>)
          ELSE LET nextIdx == Val(index) + 1
               IN Navigated(Some(nextIdx), commands[nextIdx + 1])

\* the whole handler, as the pair it leaves in (historyIndex, input)
navigateResult(direction) ==
  navigateFrom(previousCommands, historyIndex, input, direction)

navigateHistory(direction) ==
  /\ historyIndex' = navigateResult(direction).historyIndex
  /\ input' = navigateResult(direction).input
  /\ UNCHANGED <<fs, extraCommands, path, history, completion, cwdPathPrev,
                 previousCommands>>
\* interrupt that echoes the buffer trimmed, as submit does
interrupt_trims ==
  /\ Len(history) < MaxHistory
  /\ history' = Append(history, [in |-> trim(input), out |-> OutUndefined])
  /\ input' = <<>>
  /\ historyIndex' = Null
  /\ completion' = Null
  /\ UNCHANGED <<fs, extraCommands, path, cwdPathPrev, previousCommands>>

interrupt ==
  /\ Len(history) < MaxHistory
  /\ history' = Append(history, [in |-> input, out |-> OutUndefined])
  /\ input' = <<>>
  /\ historyIndex' = Null
  /\ completion' = Null
  /\ UNCHANGED <<fs, extraCommands, path, cwdPathPrev, previousCommands>>

(* ---------------- complete ---------------- *)

getPathCompletionScopeForCommand(cmd, extra) ==
  IF cmd = S_cd THEN "directories"
  ELSE IF cmd = S_cat THEN "files"
  ELSE LET def == IF extra = Null \/ ~ hasProperty(Val(extra), cmd) THEN Null
                  ELSE Some(getProperty(Val(extra), cmd, PrototypeDefinition))
       IN IF def = Null THEN "none"
          ELSE LET cfg == Val(def).completion
                   mode == IF cfg = Null \/ Val(cfg).mode = Null THEN "none" ELSE Val(Val(cfg).mode)
               IN IF mode = "none" THEN "none"
                  ELSE IF Val(cfg).fileScope = Null THEN "any" ELSE Val(Val(cfg).fileScope)

\* what one call of complete leaves in the input buffer and the completion state
Completed(newInput, newCompletion) == [input |-> newInput, completion |-> newCompletion]

\* nextTokens[i] = replacement; nextTokens.join(" ")
replaceToken(tokens, i, replacement) == join([tokens EXCEPT ![i] = replacement], S_space)

\* completeCycle that advances the index twice
completeCycle_skip(raw, tokens, endsWithSpace, c) ==
  LET nextIndex == (c.index + 2) % Len(c.options)
      choice == c.options[nextIndex + 1]
      newInput ==
        IF c.kind = "command" THEN replaceToken(tokens, 1, choice)
        ELSE LET replacement == IF c.basePart = S_dot THEN choice
                                ELSE c.basePart \o S_slash \o choice
             IN IF Len(tokens) = 1 /\ endsWithSpace
                THEN Head(tokens) \o S_space \o replacement
                ELSE replaceToken(tokens, Len(tokens), replacement)
  IN Completed(newInput, Some([c EXCEPT !.index = nextIndex, !.seedInput = newInput]))
\* completeCycle that keeps only the option it has just chosen
completeCycle_narrows(raw, tokens, endsWithSpace, c) ==
  LET nextIndex == (c.index + 1) % Len(c.options)
      choice == c.options[nextIndex + 1]
      newInput ==
        IF c.kind = "command" THEN replaceToken(tokens, 1, choice)
        ELSE LET replacement == IF c.basePart = S_dot THEN choice
                                ELSE c.basePart \o S_slash \o choice
             IN IF Len(tokens) = 1 /\ endsWithSpace
                THEN Head(tokens) \o S_space \o replacement
                ELSE replaceToken(tokens, Len(tokens), replacement)
  IN Completed(newInput,
               Some([c EXCEPT !.index = 0, !.seedInput = newInput, !.options = <<choice>>]))

\* the branch taken when the stored state is usable: one step of the cycle
completeCycle(raw, tokens, endsWithSpace, c) ==
  LET nextIndex == (c.index + 1) % Len(c.options)
      choice == c.options[nextIndex + 1]
      newInput ==
        IF c.kind = "command" THEN replaceToken(tokens, 1, choice)
        ELSE LET replacement == IF c.basePart = S_dot THEN choice
                                ELSE c.basePart \o S_slash \o choice
             IN IF Len(tokens) = 1 /\ endsWithSpace
                THEN Head(tokens) \o S_space \o replacement
                ELSE replaceToken(tokens, Len(tokens), replacement)
  IN Completed(newInput, Some([c EXCEPT !.index = nextIndex, !.seedInput = newInput]))

\* commandMatches that compares the first character only
commandMatches_firstChar(lastToken) ==
  SelectSeq(allCommands, LAMBDA c : startsWith(c, SubSeq(lastToken, 1, 1)))

\* allCommands.filter((c) => c.startsWith(lastToken))
commandMatches(lastToken) == SelectSeq(allCommands, LAMBDA c : startsWith(c, lastToken))

\* 1) command-name completion
completeCommand(raw, tokens) ==
  LET lastToken == tokens[Len(tokens)]
      matches == commandMatches(lastToken)
  IN IF matches = <<>> THEN Completed(raw, Null)
     ELSE IF Len(matches) = 1
     THEN Completed(replaceToken(tokens, Len(tokens), matches[1]), Null)
     ELSE LET prefix == longestCommonPrefix(matches)
              newInput == IF Len(prefix) > Len(lastToken)
                          THEN replaceToken(tokens, 1, prefix) ELSE raw
          IN Completed(newInput,
                       Some([kind |-> "command", options |-> matches, index |-> -1,
                             seedInput |-> newInput]))

\* the filter of the path candidates
scopeAccepts(scope, node) ==
  CASE scope = "directories" -> isDirectory(Some(node))
    [] scope = "files" -> isFile(Some(node))
    [] scope = "textFiles" -> isTextFile(Some(node))
    [] scope = "linkFiles" -> isLinkFile(Some(node))
    [] OTHER -> TRUE

\* the token the path completion works on
argTokenOf(tokens, endsWithSpace) ==
  IF Len(tokens) = 1 /\ endsWithSpace THEN <<>> ELSE tokens[Len(tokens)]

basePartOf(argToken) ==
  IF includes(argToken, "/") THEN SubSeq(argToken, 1, lastIndexOf(argToken, "/") - 1)
  ELSE S_dot

prefixPartOf(argToken) ==
  IF includes(argToken, "/")
  THEN SubSeq(argToken, lastIndexOf(argToken, "/") + 1, Len(argToken))
  ELSE argToken

\* Object.entries(baseNode.entries).filter(...).map(([name]) => name)
pathMatches(baseNode, prefixPart, scope) ==
  ownKeys(SelectSeq(Val(baseNode).entries,
                    LAMBDA e : /\ (prefixPart = <<>> \/ startsWith(e.name, prefixPart))
                               /\ scopeAccepts(scope, e.value)))

\* buildReplacement that forgets the base part
buildReplacement_dropBase(basePart, name) == name

buildReplacement(basePart, name) ==
  IF basePart = S_dot THEN name ELSE basePart \o S_slash \o name

\* 3) path / argument completion
completePath(raw, tokens, endsWithSpace, scope) ==
  LET cmd == Head(tokens)
      argToken == argTokenOf(tokens, endsWithSpace)
      basePart == basePartOf(argToken)
      prefixPart == prefixPartOf(argToken)
      basePath == resolvePath(basePart)
      baseNode == getNodeAt(basePath)
      spliced(name) == IF Len(tokens) = 1 /\ endsWithSpace
                       THEN cmd \o S_space \o buildReplacement(basePart, name)
                       ELSE replaceToken(tokens, Len(tokens), buildReplacement(basePart, name))
  IN IF ~ isDirectory(baseNode) THEN Completed(raw, Null)
     ELSE LET matches == pathMatches(baseNode, prefixPart, scope)
          IN IF matches = <<>> THEN Completed(raw, Null)
             ELSE IF Len(matches) = 1 THEN Completed(spliced(matches[1]), Null)
             ELSE LET prefix == longestCommonPrefix(matches)
                      newInput == IF Len(prefix) > Len(prefixPart) THEN spliced(prefix) ELSE raw
                  IN Completed(newInput,
                               Some([kind |-> "path", options |-> matches, index |-> -1,
                                     seedInput |-> newInput, basePart |-> basePart]))
\* complete that completes paths after a command that is unknown
completeResult_unknownPaths ==
  LET raw == input
      endsWithSpace == raw # <<>> /\ isWhitespace(raw[Len(raw)])
      tokens == splitWhitespace(trim(raw))
      cmd == Head(tokens)
      isKnownCommand == arrayIncludes(allCommands, cmd)
      isCommandOnly == Len(tokens) = 1 /\ ~ endsWithSpace
      scope == getPathCompletionScopeForCommand(cmd, extraCommands)
  IN IF trim(raw) = <<>> THEN Completed(input, completion)
     ELSE IF /\ completion # Null
             /\ Val(completion).seedInput = raw
             /\ Len(Val(completion).options) > 1
     THEN completeCycle(raw, tokens, endsWithSpace, Val(completion))
     ELSE IF isCommandOnly THEN completeCommand(raw, tokens)
     ELSE IF ~ isKnownCommand THEN completePath(raw, tokens, endsWithSpace, "any")
     ELSE IF scope = "none" THEN Completed(raw, Null)
     ELSE completePath(raw, tokens, endsWithSpace, scope)

\* complete that cycles on the stored state without comparing its seedInput
completeResult_cycleStale ==
  LET raw == input
      endsWithSpace == raw # <<>> /\ isWhitespace(raw[Len(raw)])
      tokens == splitWhitespace(trim(raw))
      cmd == Head(tokens)
      isKnownCommand == arrayIncludes(allCommands, cmd)
      isCommandOnly == Len(tokens) = 1 /\ ~ endsWithSpace
      scope == getPathCompletionScopeForCommand(cmd, extraCommands)
  IN IF trim(raw) = <<>> THEN Completed(input, completion)
     ELSE IF /\ completion # Null
             /\ Len(Val(completion).options) > 1
     THEN completeCycle(raw, tokens, endsWithSpace, Val(completion))
     ELSE IF isCommandOnly THEN completeCommand(raw, tokens)
     ELSE IF ~ isKnownCommand THEN Completed(raw, Null)
     ELSE IF scope = "none" THEN Completed(raw, Null)
     ELSE completePath(raw, tokens, endsWithSpace, scope)

\* the whole handler, as the pair it leaves in (input, completion)
completeResult ==
  LET raw == input
      endsWithSpace == raw # <<>> /\ isWhitespace(raw[Len(raw)])
      tokens == splitWhitespace(trim(raw))
      cmd == Head(tokens)
      isKnownCommand == arrayIncludes(allCommands, cmd)
      isCommandOnly == Len(tokens) = 1 /\ ~ endsWithSpace
      scope == getPathCompletionScopeForCommand(cmd, extraCommands)
  IN IF trim(raw) = <<>> THEN Completed(input, completion)
     ELSE IF /\ completion # Null
             /\ Val(completion).seedInput = raw
             /\ Len(Val(completion).options) > 1
     THEN completeCycle(raw, tokens, endsWithSpace, Val(completion))
     ELSE IF isCommandOnly THEN completeCommand(raw, tokens)
     ELSE IF ~ isKnownCommand THEN Completed(raw, Null)
     ELSE IF scope = "none" THEN Completed(raw, Null)
     ELSE completePath(raw, tokens, endsWithSpace, scope)

complete ==
  /\ input' = completeResult.input
  /\ completion' = completeResult.completion
  /\ UNCHANGED <<fs, extraCommands, path, history, historyIndex, cwdPathPrev,
                 previousCommands>>

(* ---------------- the sessions explored ---------------- *)

N_docs == <<"d", "o", "c", "s">>
N_down == <<"d", "o", "w", "n">>
N_notes == <<"n", "o", "t", "e", "s">>
N_a == <<"a">>
N_b == <<"b">>
N_web == <<"w", "e", "b">>
N_cp == <<"c", "p">>

\* the tree of every session: /docs holds two text files and a link, /down is empty
FileSystem ==
  Directory(<<
    Entry(N_docs, Directory(<<
      Entry(N_a, TextFile(<<"h", "i">>)),
      Entry(N_b, TextFile(<<"y", "o">>)),
      Entry(N_web, LinkFile(<<"x">>, Null, Null)) >>)),
    Entry(N_down, Directory(<<>>)),
    Entry(N_notes, TextFile(<<"h", "i">>)) >>)

\* a custom command that returns the text "ok" and declares no completion
CopyCommand == [run |-> Some([throws |-> FALSE, out |-> OutText(<<"o", "k">>)]), completion |-> Null]

\* the registry that registers `cp`
CopyRegistry == Some(<<Entry(N_cp, CopyCommand)>>)

InitWith(registries, startPaths) ==
  /\ fs = FileSystem
  /\ extraCommands \in registries
  /\ \E startPath \in startPaths : path = normalizePath(startPath)
  /\ history = <<>>
  /\ input = <<>>
  /\ completion = Null
  /\ historyIndex = Null
  /\ cwdPathPrev = Null
  /\ previousCommands = <<>>

\* the user types one of `lines`, or presses Enter, Tab, ArrowUp, ArrowDown,
\* or the host calls interrupt
NextWith(lines) ==
  \/ \E v \in lines : setInput(v)
  \/ submit
  \/ complete
  \/ \E direction \in {"up", "down"} : navigateHistory(direction)
  \/ interrupt

(* ---- sessions that change directory ---- *)

\* a root start, one that is not normalized, and one that is not in the tree
CdStartPaths == { <<"/">>, <<"d", "o", "c", "s", "/", ".", ".", "/", "d", "o", "w", "n", "/", ".", "/">>, <<"/", "h", "o", "m", "e">> }

CdLines ==
  { <<"c", "d", " ", "d", "o", "c", "s">>,
    <<"c", "d", " ", "-">>,
    <<"c", "d">>,
    <<"c", "d", " ", ".", ".">>,
    <<"c", "d", " ", "n", "o", "p", "e">>,
    <<"c", "d", " ", "c", "o", "n", "s", "t", "r", "u", "c", "t", "o", "r">>,
    <<"c", "d", " ", ".", ".", "/", ".", ".", "/", "d", "o", "w", "n", "/", ".">> }

Init == InitWith({Null}, CdStartPaths)

Next == NextWith(CdLines)

Spec == Init /\ [][Next]_vars

(* ---- sessions that look for the previous directory ---- *)

\* a root start and one that is not in the tree
UnsetStartPaths == { <<"/">>, <<"/", "h", "o", "m", "e">> }

UnsetLines ==
  { <<"c", "d", " ", "-">>,
    <<"c", "d", " ", "n", "o", "p", "e">>,
    <<"c", "d", " ", "d", "o", "c", "s">> }

UnsetInit == InitWith({Null}, UnsetStartPaths)

UnsetNext == NextWith(UnsetLines)

SpecCdUnset == UnsetInit /\ [][UnsetNext]_vars

(* ---- sessions that clear the scrollback ---- *)

ClearStartPaths == { <<"/">> }

ClearLines ==
  { <<"c", "l", "e", "a", "r">>,
    <<" ", "c", "l", "e", "a", "r", " ", "d", "o", "c", "s", " ">>,
    <<"p", "w", "d">>,
    <<"l", "s", " ", "d", "o", "w", "n">>,
    <<"e", "c", "h", "o", " ", "a">> }

ClearInit == InitWith({Null, CopyRegistry}, ClearStartPaths)

ClearNext == NextWith(ClearLines)

SpecClear == ClearInit /\ [][ClearNext]_vars

(* ---- sessions that press Tab ---- *)

N_mv == <<"m", "v">>
N_mvn == <<"m", "v", "n">>

\* a custom command that completes its argument with any child
MoveCommand ==
  [run |-> Some([throws |-> FALSE, out |-> OutUndefined]),
   completion |-> Some([mode |-> Some("paths"), fileScope |-> Null])]

\* the registry that registers `cp`, `mv` and `mvn`
TabRegistry ==
  Some(<<Entry(N_cp, CopyCommand), Entry(N_mv, MoveCommand), Entry(N_mvn, CopyCommand)>>)

\* in these sessions submit and interrupt are taken only if they leave at most
\* this many entries in the scrollback
TabMaxHistory == 1

\* in these sessions submit is taken only if it leaves at most this many lines
\* in the recall stack
TabMaxRecall == 1

TabInit == InitWith({TabRegistry}, { <<"/">> })

TabNextWith(lines) ==
  \/ \E v \in lines : setInput(v)
  \/ submit /\ Len(history') <= TabMaxHistory /\ Len(previousCommands') <= TabMaxRecall
  \/ complete
  \/ \E direction \in {"up", "down"} : navigateHistory(direction)
  \/ interrupt /\ Len(history') <= TabMaxHistory

\* a command prefix with several candidates, one with a single candidate
StaleLines == { <<"c">>,
    <<"c", "a">>,
    <<" ">> }

StaleNext == TabNextWith(StaleLines)

SpecTabStale == TabInit /\ [][StaleNext]_vars

\* a command prefix with two candidates, a directory with three files
CycleLines == { <<"m">>, <<"c", "a", "t", " ", "d", "o", "c", "s", "/">> }

CycleNext == TabNextWith(CycleLines)

SpecTabCycle == TabInit /\ [][CycleNext]_vars

\* buffers with exactly one candidate: a command, an empty argument, a name
\* prefix, a name prefix under a base directory
SingleLines ==
  { <<"c", "a">>,
    <<"c", "a", "t", " ">>,
    <<"c", "a", "t", " ", "n">>,
    <<" ", "c", "a", "t", " ", " ", "n">>,
    <<"c", "a", "t", " ", "d", "o", "c", "s", "/", "w">>,
    <<"m", "v", " ", "n">> }

SingleNext == TabNextWith(SingleLines)

SpecTabSingle == TabInit /\ [][SingleNext]_vars

\* buffers with several candidates, whose common prefix is or is not longer
\* than what is typed
PrefixLines == { <<"m">>,
    <<"m", "v">>,
    <<"c", "d", " ">>,
    <<"c", "d", " ", "d">>,
    <<"c", "d", " ", "d", "o">> }

PrefixNext == TabNextWith(PrefixLines)

SpecTabPrefix == TabInit /\ [][PrefixNext]_vars

\* a known command with two candidates, and buffers whose first token is not
\* a known command: one that extends a known name, one that names a property
\* every object inherits, one followed by whitespace only
UnknownLines ==
  { <<"c", "d", " ", "d">>,
    <<"c", "d", "x", " ", "d">>,
    <<"c", "o", "n", "s", "t", "r", "u", "c", "t", "o", "r", " ", "d">>,
    <<"f", "o", "o", " ">> }

UnknownNext == TabNextWith(UnknownLines)

SpecTabUnknown == TabInit /\ [][UnknownNext]_vars

(* ---- sessions whose registry takes the names of built-in commands ---- *)

N_rm == <<"r", "m">>

\* a custom command whose handler throws
FailCommand == [run |-> Some([throws |-> TRUE, out |-> OutUndefined]), completion |-> Null]

\* the registry that registers `cd`, `clear` and `echo` over the built-in
\* commands, and `rm` with a handler that throws
OverrideRegistry ==
  Some(<<Entry(S_cd, CopyCommand), Entry(S_clear, CopyCommand), Entry(S_echo, CopyCommand),
         Entry(N_rm, FailCommand)>>)

\* the registry that registers `clear` with a handler that throws
FailingClearRegistry == Some(<<Entry(S_clear, FailCommand)>>)

OverrideLines ==
  { <<"c", "d", " ", "d", "o", "c", "s">>,
    <<"c", "l", "e", "a", "r">>,
    <<"e", "c", "h", "o", " ", "a">>,
    <<"r", "m", " ", "a">> }

OverrideInit == InitWith({OverrideRegistry, FailingClearRegistry}, { <<"/">> })

OverrideNext == NextWith(OverrideLines)

SpecOverride == OverrideInit /\ [][OverrideNext]_vars

(* ---- sessions that press Tab, with a registry that takes built-in names ---- *)

\* a custom command that completes its argument with directories only
DirectoryCommand ==
  [run |-> Some([throws |-> FALSE, out |-> OutUndefined]),
   completion |-> Some([mode |-> Some("paths"), fileScope |-> Some("directories")])]

\* a custom command that declares the completion mode `none`
PlainCommand ==
  [run |-> Some([throws |-> FALSE, out |-> OutUndefined]),
   completion |-> Some([mode |-> Some("none"), fileScope |-> Null])]

\* the registry that registers `cd` with no completion config, `cat` with
\* directories as its file scope, `cp` with no completion config and `rm` with
\* the mode `none`
TabOverrideRegistry ==
  Some(<<Entry(S_cd, CopyCommand), Entry(S_cat, DirectoryCommand), Entry(N_cp, CopyCommand),
         Entry(N_rm, PlainCommand)>>)

TabOverrideInit == InitWith({TabOverrideRegistry}, { <<"/">> })

TabOverrideLines ==
  { <<"c", "d", " ", "d">>,
    <<"c", "a", "t", " ", "n">>,
    <<"c", "a", "t", " ", "d">>,
    <<"c", "p", " ", "d">>,
    <<"r", "m", " ">> }

TabOverrideNext == TabNextWith(TabOverrideLines)

SpecTabOverride == TabOverrideInit /\ [][TabOverrideNext]_vars

(* ---- sessions that recall lines ---- *)

\* a line with whitespace around it, a blank line, a plain line, and `clear`
RecallLines ==
  { <<" ", "p", "w", "d", " ">>,
    <<" ">>,
    <<"l", "s">>,
    <<"c", "l", "e", "a", "r">> }

RecallInit == InitWith({Null}, { <<"/">> })

RecallNext == NextWith(RecallLines)

SpecRecall == RecallInit /\ [][RecallNext]_vars

(* ---- sessions that submit and interrupt every kind of line ---- *)

\* the prefix of two custom commands, `clear`, a built-in command with
\* whitespace around it and an unknown command
SubmitLines ==
  { <<"m">>,
    <<"c", "l", "e", "a", "r">>,
    <<" ", "p", "w", "d", " ">>,
    <<"f", "o", "o">> }

SubmitNext == TabNextWith(SubmitLines)

SpecSubmit == TabInit /\ [][SubmitNext]_vars

(* ---- sessions that move and run other commands ---- *)

\* a successful `cd`, `cd -`, a failing `cd`, a built-in and a custom command
FrameLines ==
  { <<"c", "d", " ", "d", "o", "c", "s">>,
    <<"c", "d", " ", "-">>,
    <<"c", "d", " ", "n", "o", "p", "e">>,
    <<"p", "w", "d">>,
    <<"c", "p", " ", "a">> }

FrameInit == InitWith({CopyRegistry}, { <<"/">> })

FrameNext == NextWith(FrameLines)

SpecFrame == FrameInit /\ [][FrameNext]_vars

(* ---- sessions over paths that are not normalized ---- *)

\* the longest start path and candidate, in segments
MaxSegments == 3

\* a name, `.`, `..` and the empty segment
PathSegments == { N_docs, S_dot, S_dotdot, <<>> }

RECURSIVE PathsOf(_)
\* the strings of n segments joined by `/`
PathsOf(n) ==
  IF n = 1 THEN PathSegments
  ELSE { p \o S_slash \o segment : p \in PathsOf(n - 1), segment \in PathSegments }

\* every string of one to MaxSegments segments: a leading, a doubled and a
\* trailing `/` come from empty segments
PathInputs == UNION { PathsOf(n) : n \in 1..MaxSegments }

PathLines ==
  { <<"c", "d", " ", ".", ".">>,
    <<"c", "d", " ", "/", ".", ".", "/", "d", "o", "c", "s", "/">>,
    <<"l", "s", " ", ".", "/", ".", ".", "/", ".", ".">> }

PathsInit == InitWith({Null}, PathInputs)

PathsNext == TabNextWith(PathLines)

SpecPaths == PathsInit /\ [][PathsNext]_vars

(* ---- sessions over other trees ---- *)

\* the most children the root of a drawn tree has
MaxChildren == 3

\* names in lower and upper case, one a prefix of another, and the empty name
LsNames == { <<"b">>, <<"D">>, <<"a">>, <<"a", "b">>, <<>> }

\* the ways to insert n distinct names into an object, one after the other
LsKeyOrders(n) ==
  { keys \in [1..n -> LsNames] : \A i, j \in 1..n : i # j => keys[i] # keys[j] }

\* a root directory of up to MaxChildren text files, in every insertion order
LsTrees ==
  { Directory([i \in 1..Len(keys) |-> Entry(keys[i], TextFile(<<"h", "i">>))]) :
      keys \in UNION { LsKeyOrders(n) : n \in 0..MaxChildren } }

LsLines == { <<"l", "s">>, <<"l", "s", " ", "/", ".">>, <<"l", "s", " ", "a">> }

LsInit ==
  /\ fs \in LsTrees
  /\ extraCommands = Null
  /\ path = normalizePath(S_slash)
  /\ history = <<>>
  /\ input = <<>>
  /\ completion = Null
  /\ historyIndex = Null
  /\ cwdPathPrev = Null
  /\ previousCommands = <<>>

LsNext == TabNextWith(LsLines)

SpecLs == LsInit /\ [][LsNext]_vars

(* ---- sessions that print files ---- *)

\* `cat` with no operand, on a missing name, a directory, a text file, a link
\* and a name that only Object.prototype has
CatLines ==
  { <<"c", "a", "t">>,
    <<"c", "a", "t", " ", "n", "o", "p", "e">>,
    <<"c", "a", "t", " ", "d", "o", "c", "s">>,
    <<"c", "a", "t", " ", "n", "o", "t", "e", "s">>,
    <<"c", "a", "t", " ", "d", "o", "c", "s", "/", "w", "e", "b">>,
    <<"c", "a", "t", " ", "c", "o", "n", "s", "t", "r", "u", "c", "t", "o", "r">> }

CatInit == InitWith({Null}, { <<"/">> })

CatNext == TabNextWith(CatLines)

SpecCat == CatInit /\ [][CatNext]_vars

(* ---- sessions that start outside the tree ---- *)

\* a start path that is not in the tree, one that names a file and one that
\* names a member of Object.prototype
GoneStartPaths ==
  { <<"/", "h", "o", "m", "e">>,
    <<"/", "n", "o", "t", "e", "s">>,
    <<"/", "c", "o", "n", "s", "t", "r", "u", "c", "t", "o", "r">> }

GoneLines ==
  { <<"c", "d">>,
    <<"c", "d", " ", "-">>,
    <<"c", "d", " ", "/", "d", "o", "c", "s">> }

GoneInit == InitWith({Null}, GoneStartPaths)

GoneNext == NextWith(GoneLines)

SpecCdGone == GoneInit /\ [][GoneNext]_vars

(* ---- sessions that complete absolute paths ---- *)

AbsoluteStartPaths == { <<"/">>, <<"/", "d", "o", "c", "s">> }

\* an absolute prefix of one file of /docs, a bare `/`, a relative directory
\* and an absolute prefix of the directories of the root
AbsoluteLines ==
  { <<"c", "a", "t", " ", "/", "w">>,
    <<"c", "a", "t", " ", "/">>,
    <<"c", "a", "t", " ", "d", "o", "c", "s", "/">>,
    <<"c", "d", " ", "/", "d">> }

AbsoluteInit == InitWith({Null}, AbsoluteStartPaths)

AbsoluteNext == TabNextWith(AbsoluteLines)

SpecTabAbsolute == AbsoluteInit /\ [][AbsoluteNext]_vars

(* ---- sessions that complete a name registered twice ---- *)

\* a registry that registers a custom command under the built-in name `pwd`
ShadowRegistry == Some(<<Entry(S_pwd, CopyCommand)>>)

\* a prefix of `pwd` only and a prefix of three names
ShadowLines == { <<"p", "w">>, <<"c">> }

ShadowInit == InitWith({Null, ShadowRegistry}, { <<"/">> })

ShadowNext == TabNextWith(ShadowLines)

SpecTabShadow == ShadowInit /\ [][ShadowNext]_vars

(* ---- sessions that start inside the tree ---- *)

\* the root, a directory, and a directory written with `..`, `.` and a trailing `/`
InsideStartPaths ==
  { <<"/">>,
    <<"/", "d", "o", "c", "s">>,
    <<"d", "o", "c", "s", "/", ".", ".", "/", "d", "o", "w", "n", "/", ".", "/">> }

\* a directory, the way back, the parent, a file and a member of Object.prototype
InsideLines ==
  { <<"c", "d", " ", "d", "o", "c", "s">>,
    <<"c", "d", " ", "-">>,
    <<"c", "d", " ", ".", ".">>,
    <<"c", "d", " ", "n", "o", "t", "e", "s">>,
    <<"c", "d", " ", "c", "o", "n", "s", "t", "r", "u", "c", "t", "o", "r">> }

InsideInit == InitWith({Null, CopyRegistry}, InsideStartPaths)

InsideNext == NextWith(InsideLines)

SpecCdInside == InsideInit /\ [][InsideNext]_vars

(* ---- sessions that go back and forth ---- *)

\* in these sessions Enter is taken only if it leaves at most this many
\* entries in the scrollback and lines in the recall stack
SwapMaxLines == 3

\* a directory of the root, the parent, and the way back
SwapLines ==
  { <<"c", "d", " ", "d", "o", "c", "s">>,
    <<"c", "d", " ", ".", ".">>,
    <<"c", "d", " ", "-">> }

SwapInit == InitWith({Null}, { <<"/">>, <<"/", "d", "o", "w", "n">> })

SwapNext ==
  \/ \E v \in SwapLines : setInput(v)
  \/ submitLine /\ Len(history') <= SwapMaxLines /\ Len(previousCommands') <= SwapMaxLines
  \/ complete
  \/ \E direction \in {"up", "down"} : navigateHistory(direction)
  \/ interrupt

SpecCdSwap == SwapInit /\ [][SwapNext]_vars

(* ---------------- vocabulary of the properties ---------------- *)

RECURSIVE lookupFrom(_, _)
\* the walk of the tree by own entries only: Null when a segment is not there
lookupFrom(node, segments) ==
  IF segments = <<>> THEN Some(node)
  ELSE IF node.kind # "directory" \/ ~ hasOwn(node.entries, Head(segments)) THEN Null
  ELSE lookupFrom(ownValue(node.entries, Head(segments)), Tail(segments))

\* the node of the tree at an absolute path, Null when there is none
lookup(p) == lookupFrom(fs, filterBoolean(split(p, "/")))

isMissing(p) == lookup(p) = Null

isDirectoryPath(p) == lookup(p) # Null /\ Val(lookup(p)).kind = "directory"

\* the tokens of a buffer
tokensOf(buffer) == splitWhitespace(trim(buffer))

\* the command and the arguments of the line in the input buffer
typedTokens == tokensOf(input)

typedCommand == Head(typedTokens)

typedArgs == Tail(typedTokens)

\* the target a `cd` line names: its first argument, `/` when it has none
typedCdTarget == IF typedArgs = <<>> THEN S_slash ELSE Head(typedArgs)

\* the newest entry of a scrollback
newest(scrollback) == scrollback[Len(scrollback)]

lastEntry == newest(history)

\* a path is absolute and normalized
isNormalized(p) ==
  /\ p # <<>>
  /\ Head(p) = "/"
  /\ \/ p = S_slash
     \/ \A piece \in {split(Tail(p), "/")[i] : i \in 1..Len(split(Tail(p), "/"))} :
          piece \notin {<<>>, S_dot, S_dotdot}

P_root == S_slash
P_docs == <<"/", "d", "o", "c", "s">>
P_down == <<"/", "d", "o", "w", "n">>
P_home == <<"/", "h", "o", "m", "e">>
L_cdDocs == <<"c", "d", " ", "d", "o", "c", "s">>
L_cdDash == <<"c", "d", " ", "-">>
L_cdUpDown == <<"c", "d", " ", ".", ".", "/", ".", ".", "/", "d", "o", "w", "n", "/", ".">>
L_cdConstructor == <<"c", "d", " ", "c", "o", "n", "s", "t", "r", "u", "c", "t", "o", "r">>

(* ---------------- C2 ---------------- *)

\* C2: in every reachable state the current path is absolute and normalized:
\* it starts with `/` and has no empty segment, no `.` and no `..` segment.
C2_PathNormalized == isNormalized(path)

\* a `cd` whose target has `..`, `.` and a trailing name has moved the session
C2_Witness ==
  /\ history # <<>>
  /\ lastEntry = makeEntry(L_cdUpDown, OutUndefined)
  /\ path = P_down

(* ---------------- C8 ---------------- *)

\* no custom command of the registry is named `cd`
cdIsBuiltin == extraCommands = Null \/ ~ hasOwn(Val(extraCommands), S_cd)

\* the line in the buffer is a built-in `cd` with a target other than `-`
typedCdToTarget == cdIsBuiltin /\ typedCommand = S_cd /\ typedCdTarget # S_dash

\* the line in the buffer is a built-in `cd -`
typedCdDash == cdIsBuiltin /\ typedCommand = S_cd /\ typedArgs # <<>> /\ Head(typedArgs) = S_dash

\* C8: a `cd` whose resolved target is missing from the tree outputs
\* `cd: <target>: No such file or directory`, one whose target is in the tree
\* but is not a directory outputs `cd: not a directory: <target>`, and both
\* leave the current path and the previous directory as they were.
C8_FailedCd ==
  [][ (typedCdToTarget /\ ~ isDirectoryPath(resolvePath(typedCdTarget)) /\ submit)
      => /\ path' = path
         /\ cwdPathPrev' = cwdPathPrev
         /\ newest(history').out =
              OutText(IF isMissing(resolvePath(typedCdTarget))
                      THEN S_cdColon \o typedCdTarget \o S_noSuchFileOrDirectory
                      ELSE S_cdNotADirectory \o typedCdTarget) ]_vars

(* ---------------- C9 ---------------- *)

\* C9: a `cd <target>` (target other than `-`, `/` when omitted) whose target
\* resolves to a directory sets the previous directory to the path that was
\* current, sets the current path to the resolved target, and appends an entry
\* with no output.
C9_SuccessfulCd ==
  [][ (typedCdToTarget /\ isDirectoryPath(resolvePath(typedCdTarget)) /\ submit)
      => /\ path' = resolvePath(typedCdTarget)
         /\ cwdPathPrev' = Some(path)
         /\ newest(history') = makeEntry(trim(input), OutUndefined) ]_vars

\* `cd docs` at the root has succeeded
C9_Witness ==
  /\ history = <<makeEntry(L_cdDocs, OutUndefined)>>
  /\ path = P_docs
  /\ cwdPathPrev = Some(P_root)

(* ---------------- C10 ---------------- *)

\* C10 as claimed: when exactly one line has been executed and it was a
\* successful `cd` from path P, `cd -` makes the current path P and outputs P.
C10_Original ==
  [][ (typedCdDash /\ Len(previousCommands) = 1 /\ cwdPathPrev # Null /\ submit)
      => /\ path' = Val(cwdPathPrev)
         /\ newest(history').out = OutText(Val(cwdPathPrev)) ]_vars

\* C10: when the previous directory is P (the path a successful `cd` left) and
\* P resolves to a directory of the tree, `cd -` makes the current path P and
\* outputs P.
C10_CdDashReturns ==
  [][ (typedCdDash /\ cwdPathPrev # Null /\ isDirectoryPath(Val(cwdPathPrev)) /\ submit)
      => /\ path' = Val(cwdPathPrev)
         /\ newest(history').out = OutText(Val(cwdPathPrev)) ]_vars

\* `cd docs` at the root, then `cd -`
C10_Witness ==
  /\ previousCommands = <<L_cdDocs, L_cdDash>>
  /\ history = <<makeEntry(L_cdDocs, OutUndefined), makeEntry(L_cdDash, OutText(P_root))>>
  /\ path = P_root
  /\ cwdPathPrev = Some(P_docs)

(* ---------------- C1 ---------------- *)

\* no custom command of the registry is named `clear`
clearIsBuiltin == extraCommands = Null \/ ~ hasOwn(Val(extraCommands), S_clear)

L_pwd == S_pwd

endsWithSpace(s) == s # <<>> /\ isWhitespace(s[Len(s)])

\* the stored completion state is usable for cycling
cycleUsable ==
  /\ completion # Null
  /\ Val(completion).seedInput = input
  /\ Len(Val(completion).options) > 1

\* a completion request that computes its candidates from scratch
freshRequest == trim(input) # <<>> /\ ~ cycleUsable

\* the buffer is a lone command name still being typed
typingCommand == Len(typedTokens) = 1 /\ ~ endsWithSpace(input)

\* the argument being completed: empty when nothing is typed after the command
typedArgToken == IF Len(typedTokens) = 1 THEN <<>> ELSE typedTokens[Len(typedTokens)]

\* the part of the argument before its last `/`, Null when it has none
typedBase ==
  IF includes(typedArgToken, "/")
  THEN Some(SubSeq(typedArgToken, 1, lastIndexOf(typedArgToken, "/") - 1))
  ELSE Null

\* what is typed of the name being completed
typedName ==
  IF typingCommand THEN typedCommand
  ELSE SubSeq(typedArgToken, lastIndexOf(typedArgToken, "/") + 1, Len(typedArgToken))

\* the directory whose children are the candidates of a path completion
typedBaseNode == lookup(resolvePath(IF typedBase = Null THEN S_dot ELSE Val(typedBase)))

\* the candidates of the request, in the order the state lists them: the known
\* commands that start with the typed name, or the children of the base
\* directory that start with it and pass the file scope of the command
candidates ==
  IF typingCommand THEN SelectSeq(allCommands, LAMBDA c : startsWith(c, typedName))
  ELSE IF /\ arrayIncludes(allCommands, typedCommand)
          /\ getPathCompletionScopeForCommand(typedCommand, extraCommands) # "none"
          /\ typedBaseNode # Null
          /\ Val(typedBaseNode).kind = "directory"
  THEN ownKeys(SelectSeq(Val(typedBaseNode).entries,
         LAMBDA e : /\ startsWith(e.name, typedName)
                    /\ scopeAccepts(getPathCompletionScopeForCommand(typedCommand, extraCommands),
                                    e.value)))
  ELSE <<>>

\* the token that names `name` in full: the command, or base part + child name
fullToken(name) ==
  IF typingCommand \/ typedBase = Null THEN name ELSE Val(typedBase) \o S_slash \o name

\* the tokens of the buffer with the token being completed replaced by `token`
tokensWith(token) ==
  IF typingCommand THEN <<token>>
  ELSE IF Len(typedTokens) = 1 THEN Append(typedTokens, token)
  ELSE [typedTokens EXCEPT ![Len(typedTokens)] = token]

\* the longest string that is a prefix of every string of `strings`
commonPrefix(strings) ==
  LET common == {k \in 0..Len(strings[1]) :
                   \A i \in 1..Len(strings) : startsWith(strings[i], SubSeq(strings[1], 1, k))}
  IN SubSeq(strings[1], 1, CHOOSE k \in common : \A m \in common : m <= k)

\* the name part of the token a cycle step of the given kind rewrites in a buffer
cycledName(kind, buffer) ==
  LET tokens == tokensOf(buffer)
      last == tokens[Len(tokens)]
  IN IF kind = "command" THEN Head(tokens)
     ELSE SubSeq(last, lastIndexOf(last, "/") + 1, Len(last))

L_c == <<"c">>
L_ca == <<"c", "a">>
L_cdDo == <<"c", "d", " ", "d", "o">>
L_catDocsWeb == <<"c", "a", "t", " ", "d", "o", "c", "s", "/", "w", "e", "b">>

(* ---------------- C3 ---------------- *)

\* C3 as claimed: whenever a completion state exists, its seedInput equals the
\* live input buffer.
C3_Original == completion # Null => Val(completion).seedInput = input

\* C3: a completion state is not discarded by an edit of the buffer, but a
\* completion request on a non-blank buffer never cycles on a state whose
\* seedInput differs from the buffer (it ends with no state or with a new state
\* of index -1), and the state a request on a non-blank buffer leaves has the
\* resulting buffer as its seedInput.
C3_StaleStateNotUsed ==
  [][ (trim(input) # <<>> /\ complete)
      => /\ completion' # Null => Val(completion').seedInput = input'
         /\ (completion # Null /\ Val(completion).seedInput # input)
              => (completion' = Null \/ Val(completion').index = -1) ]_vars

\* Tab on `c`, then the user types `ca`: the state of `c` is still there
C3_Witness ==
  /\ input = L_ca
  /\ completion # Null
  /\ Val(completion).seedInput = L_c

(* ---------------- C4 ---------------- *)

\* C4: a completion request on a usable cycle state of n > 1 options and index
\* i leaves the same options with the next index (i + 1, and 0 after n - 1) and
\* puts the option of that index in the token it rewrites; so k requests from
\* index -1 visit the options in list order and leave index (k - 1) mod n.
C4_CycleAdvances ==
  [][ (cycleUsable /\ complete)
      => LET c == Val(completion)
             k == IF c.index = Len(c.options) - 1 THEN 0 ELSE c.index + 1
         IN /\ completion' # Null
            /\ Val(completion').index = k
            /\ Val(completion').options = c.options
            /\ Val(completion').kind = c.kind
            /\ Val(completion').seedInput = input'
            /\ cycledName(c.kind, input') = c.options[k + 1] ]_vars

\* three Tabs after the first on `cat docs/`: the last of three options
C4_Witness ==
  /\ input = L_catDocsWeb
  /\ completion = Some([kind |-> "path", options |-> <<N_a, N_b, N_web>>, index |-> 2,
                        seedInput |-> L_catDocsWeb, basePart |-> N_docs])

(* ---------------- C5 ---------------- *)

\* C5: a completion request with no usable cycle state that finds exactly one
\* candidate replaces the token being completed by the full candidate (the
\* command name, or base part + child name) and ends with no completion state.
C5_SingleCandidate ==
  [][ (freshRequest /\ Len(candidates) = 1 /\ complete)
      => /\ completion' = Null
         /\ tokensOf(input') = tokensWith(fullToken(candidates[1])) ]_vars

\* Tab on `cat docs/w` has completed the only file of /docs that starts with w
C5_Witness ==
  /\ input = L_catDocsWeb
  /\ completion = Null
  /\ history = <<>>
  /\ previousCommands = <<>>

(* ---------------- C6 ---------------- *)

\* C6: a completion request with no usable cycle state that finds more than one
\* candidate extends the typed token to the longest common prefix of the
\* candidates when that is longer than what was typed and leaves the buffer as
\* it is otherwise, and leaves a cycle state whose options are the candidates,
\* whose index is -1 and whose seedInput is the resulting buffer.
C6_SeveralCandidates ==
  [][ (freshRequest /\ Len(candidates) > 1 /\ complete)
      => /\ completion' # Null
         /\ Val(completion').options = candidates
         /\ Val(completion').index = -1
         /\ Val(completion').seedInput = input'
         /\ IF Len(commonPrefix(candidates)) > Len(typedName)
            THEN tokensOf(input') = tokensWith(fullToken(commonPrefix(candidates)))
            ELSE input' = input ]_vars

\* Tab on `cd d` has extended the buffer to `cd do`
C6_Witness ==
  /\ input = L_cdDo
  /\ completion = Some([kind |-> "path", options |-> <<N_docs, N_down>>, index |-> -1,
                        seedInput |-> L_cdDo, basePart |-> S_dot])

(* ---------------- C7 ---------------- *)

\* `cat`, `cd` and `cp` are known commands
catCdCpKnown ==
  arrayIncludes(allCommands, S_cat) /\ arrayIncludes(allCommands, S_cd)
    /\ arrayIncludes(allCommands, N_cp)

\* C7 as claimed: with `cat`, `cd` and `cp` known, a completion request on the
\* buffer `ca` inserts nothing and enters the command cycle over [cat, cd].
C7_Original ==
  [][ (catCdCpKnown /\ freshRequest /\ input = L_ca /\ complete)
      => /\ input' = L_ca
         /\ completion' = Some([kind |-> "command", options |-> <<S_cat, S_cd>>,
                                index |-> -1, seedInput |-> L_ca]) ]_vars

\* C7: with `cat`, `cd` and `cp` known and no other known command starting
\* with `ca`, a completion request on the buffer `ca` replaces it by `cat` and
\* ends with no completion state; it is on the buffer `c` that a request
\* inserts nothing and enters the command cycle, over the known commands that
\* start with `c` in the order of the command list: [cd, cat, clear, cp].
C7_CaCompletesToCat ==
  [][ (catCdCpKnown /\ freshRequest /\ input \in {L_c, L_ca} /\ complete)
      => /\ input = L_ca => (input' = S_cat /\ completion' = Null)
         /\ input = L_c =>
              /\ input' = L_c
              /\ completion' = Some([kind |-> "command",
                                     options |-> <<S_cd, S_cat, S_clear, N_cp>>,
                                     index |-> -1, seedInput |-> L_c]) ]_vars

\* Tab on `ca` in a new session has left `cat` in the buffer
C7_Witness ==
  /\ input = S_cat
  /\ completion = Null
  /\ history = <<>>
  /\ previousCommands = <<>>

(* ---------------- C11 ---------------- *)

\* C11: the previous directory is null until a `cd` to a target succeeds, and
\* while it is null a `cd -` outputs `cd: OLDPWD not set` and leaves the current
\* path as it was and the previous directory null.
C11_CdDashUnset ==
  [][ /\ (typedCdDash /\ cwdPathPrev = Null /\ submit)
           => /\ path' = path
              /\ cwdPathPrev' = Null
              /\ newest(history').out = OutText(S_cdOldpwdNotSet)
      /\ (cwdPathPrev = Null /\ cwdPathPrev' # Null)
           => /\ typedCdToTarget
              /\ isDirectoryPath(resolvePath(typedCdTarget)) ]_vars

\* `cd nope` has failed, then `cd -` finds no previous directory
C11_Witness ==
  /\ Len(history) = 2
  /\ history[1].out = OutText(S_cdColon \o <<"n", "o", "p", "e">> \o S_noSuchFileOrDirectory)
  /\ history[2] = makeEntry(L_cdDash, OutText(S_cdOldpwdNotSet))
  /\ path = P_root
  /\ cwdPathPrev = Null

(* ---------------- C12 ---------------- *)

\* the command of a scrollback entry: the first token of its line
commandOf(entry) == Head(tokensOf(entry.in))

\* C12 as claimed: submitting the built-in `clear` leaves the scrollback empty,
\* and no state a submit produces has a scrollback entry whose command is
\* `clear`.
C12_Original ==
  [][ submit
      => /\ (clearIsBuiltin /\ typedCommand = S_clear) => history' = <<>>
         /\ \A i \in 1..Len(history') : commandOf(history'[i]) # S_clear ]_vars

\* C12: submitting the built-in `clear` leaves the scrollback empty, and no
\* submit appends an entry whose command is `clear`: such an entry is in the
\* scrollback a submit leaves only if it was there before (interrupt appends
\* the buffer as it is), at the same place.
C12_ClearLeavesNoEntry ==
  [][ submit
      => /\ (clearIsBuiltin /\ typedCommand = S_clear) => history' = <<>>
         /\ \A i \in 1..Len(history') :
              commandOf(history'[i]) = S_clear
                => (i <= Len(history) /\ history'[i] = history[i]) ]_vars

\* `ls`, ` pwd `, then `clear`: two lines recalled, nothing in the scrollback
C12_Witness ==
  /\ history = <<>>
  /\ previousCommands = <<S_ls, L_pwd>>
  /\ input = <<>>

(* ---------------- C13 ---------------- *)

\* the registry has a command of its own under the name
isRegistered(name) == extraCommands # Null /\ hasOwn(Val(extraCommands), name)

\* the handler the registry has under the name
handlerOf(name) == Val(ownValue(Val(extraCommands), name).run)

\* C13: a line whose command is a built-in name that the registry registers
\* with a handler that returns leaves the current path and the previous
\* directory as they were, and appends to the scrollback, cleared of nothing,
\* the entry of the line with what the handler returned.
C13_CustomOverrides ==
  [][ (/\ isRegistered(typedCommand)
       /\ arrayIncludes(BUILTIN_COMMANDS, typedCommand)
       /\ ~ handlerOf(typedCommand).throws
       /\ submit)
      => /\ path' = path
         /\ cwdPathPrev' = cwdPathPrev
         /\ history' = Append(history, makeEntry(trim(input), handlerOf(typedCommand).out)) ]_vars

(* ---------------- C14 ---------------- *)

\* the registry registers the name with no completion config, or with the
\* completion mode `none` or none at all
declaresNoCompletion(name) ==
  /\ isRegistered(name)
  /\ LET cfg == ownValue(Val(extraCommands), name).completion
     IN cfg = Null \/ Val(cfg).mode = Null \/ Val(cfg).mode = Some("none")

\* C14: a completion request on a buffer that is the name of a custom command
\* with no completion, whitespace and at most one argument leaves the buffer as
\* it is and ends with no completion state.
C14_NoCompletionDeclared ==
  [][ (/\ trim(input) # <<>>
       /\ declaresNoCompletion(typedCommand)
       /\ ~ typingCommand
       /\ Len(typedTokens) <= 2
       /\ complete)
      => /\ input' = input
         /\ completion' = Null ]_vars

(* ---------------- C15 ---------------- *)

\* C15: a line whose command the registry registers with a handler that throws
\* appends exactly one entry to the scrollback, with the output
\* `error: executing <name>`, and leaves the current path and the previous
\* directory as they were.
C15_HandlerThrows ==
  [][ (/\ isRegistered(typedCommand)
       /\ handlerOf(typedCommand).throws
       /\ submit)
      => /\ path' = path
         /\ cwdPathPrev' = cwdPathPrev
         /\ history' = Append(history,
                         makeEntry(trim(input), OutText(S_errorExecuting \o typedCommand))) ]_vars

(* ---------------- C16 ---------------- *)

\* the name is a built-in command or a command of the registry
isKnown(name) == arrayIncludes(BUILTIN_COMMANDS, name) \/ isRegistered(name)

L_cdxD == <<"c", "d", "x", " ", "d">>

\* C16: a completion request on a buffer whose first token is not a known
\* command and that has an argument or trailing whitespace leaves the buffer as
\* it is and ends with no completion state, whatever state was stored.
C16_UnknownCommand ==
  [][ (/\ trim(input) # <<>>
       /\ ~ isKnown(typedCommand)
       /\ ~ typingCommand
       /\ complete)
      => /\ input' = input
         /\ completion' = Null ]_vars

\* `cd d` was submitted, and Tab on `cdx d` has left the buffer and no state
C16_Witness ==
  /\ input = L_cdxD
  /\ completion = Null
  /\ previousCommands = << <<"c", "d", " ", "d">> >>

(* ---------------- C17 ---------------- *)

\* the file scope of a command: the one its registration declares, that of the
\* built-in `cd` and `cat` otherwise
declaredScope(name) ==
  IF isRegistered(name)
  THEN IF declaresNoCompletion(name) THEN "none"
       ELSE LET cfg == Val(ownValue(Val(extraCommands), name).completion)
            IN IF cfg.fileScope = Null THEN "any" ELSE Val(cfg.fileScope)
  ELSE IF name = S_cd THEN "directories"
  ELSE IF name = S_cat THEN "files"
  ELSE "none"

\* the names of the children of the base directory that start with the typed
\* name and that the file scope of the typed command accepts
acceptableNames ==
  IF typedBaseNode = Null \/ Val(typedBaseNode).kind # "directory" THEN {}
  ELSE LET entries == Val(typedBaseNode).entries
       IN {entries[i].name : i \in {j \in 1..Len(entries) :
             /\ startsWith(entries[j].name, typedName)
             /\ scopeAccepts(declaredScope(typedCommand), entries[j].value)}}

\* C17: when a completion request computes path candidates, every option of
\* the state it leaves, and the name it puts in the buffer when it leaves no
\* state, is the name of a child of the base directory that starts with the
\* typed name and that the file scope of the command accepts.
C17_PathOptionsInScope ==
  [][ (freshRequest /\ ~ typingCommand /\ complete)
      => /\ completion' # Null
              => \A i \in 1..Len(Val(completion').options) :
                   Val(completion').options[i] \in acceptableNames
         /\ (completion' = Null /\ input' # input)
              => cycledName("path", input') \in acceptableNames ]_vars

(* ---------------- C18 ---------------- *)

isPrefix(s, t) == Len(s) <= Len(t) /\ SubSeq(t, 1, Len(s)) = s

\* a line is not empty and has no whitespace at either end
isClean(line) ==
  line # <<>> /\ ~ isWhitespace(line[1]) /\ ~ isWhitespace(line[Len(line)])

L_ls == S_ls

\* C18: every step leaves a recall stack that the one before it is a prefix
\* of and whose entries are not empty and have no whitespace at either end,
\* and the submit of an empty or blank buffer leaves the recall stack as it was.
C18_RecallAppendOnly ==
  [][ /\ isPrefix(previousCommands, previousCommands')
      /\ \A i \in 1..Len(previousCommands') : isClean(previousCommands'[i])
      /\ (trim(input) = <<>> /\ submit) => previousCommands' = previousCommands ]_vars

\* a blank line, then ` pwd `, have been submitted: one clean line is recalled
C18_Witness ==
  /\ history = <<makeEntry(<<>>, OutUndefined), makeEntry(L_pwd, OutText(P_root))>>
  /\ previousCommands = <<L_pwd>>
  /\ input = <<>>

(* ---------------- C19 ---------------- *)

\* the line of the recall stack at the (0-based) recall index i
recalled(i) == previousCommands[i + 1]

\* C19: with n > 0 lines in the recall stack, navigateHistory('up') with no
\* recall index sets the index to n - 1 and loads the newest line; with an
\* index i > 0 it sets the index to i - 1 and loads that line; with the index 0
\* it leaves the index 0 (and loads the oldest line again).
C19_UpWalksBack ==
  [][ (previousCommands # <<>> /\ navigateHistory("up"))
      => LET n == Len(previousCommands)
             target == IF historyIndex = Null THEN n - 1
                       ELSE IF Val(historyIndex) > 0 THEN Val(historyIndex) - 1
                       ELSE 0
         IN /\ historyIndex' = Some(target)
            /\ input' = recalled(target) ]_vars

\* ` pwd ` and `ls` were submitted, then ArrowUp twice: the oldest line is loaded
C19_Witness ==
  /\ previousCommands = <<L_pwd, L_ls>>
  /\ historyIndex = Some(0)
  /\ input = L_pwd

(* ---------------- C20 ---------------- *)

\* C20: with a recall index i in a recall stack of n lines,
\* navigateHistory('down') with i < n - 1 sets the index to i + 1 and loads
\* that line, and with i = n - 1 clears the recall index and empties the buffer.
C20_DownWalksForward ==
  [][ (/\ previousCommands # <<>>
       /\ historyIndex # Null
       /\ Val(historyIndex) <= Len(previousCommands) - 1
       /\ navigateHistory("down"))
      => IF Val(historyIndex) < Len(previousCommands) - 1
         THEN /\ historyIndex' = Some(Val(historyIndex) + 1)
              /\ input' = recalled(Val(historyIndex) + 1)
         ELSE /\ historyIndex' = Null
              /\ input' = <<>> ]_vars

\* ` pwd ` and `ls` were submitted, then ArrowUp twice and ArrowDown once
C20_Witness ==
  /\ previousCommands = <<L_pwd, L_ls>>
  /\ historyIndex = Some(1)
  /\ input = L_ls
  /\ Len(history) = 2

(* ---------------- C21 ---------------- *)

L_foo == <<"f", "o", "o">>

\* C21: every submit, whatever the buffer holds, leaves the input buffer
\* empty, the recall index null and the completion state null.
C21_SubmitResets ==
  [][ submit => (input' = <<>> /\ historyIndex' = Null /\ completion' = Null) ]_vars

\* the unknown command `foo` has been submitted
C21_Witness ==
  /\ history = <<makeEntry(L_foo, OutText(S_commandNotFound \o L_foo))>>
  /\ previousCommands = <<L_foo>>
  /\ input = <<>>
  /\ historyIndex = Null
  /\ completion = Null

(* ---------------- C22 ---------------- *)

L_pwdSpaced == <<" ", "p", "w", "d", " ">>

\* C22: interrupt appends to the scrollback exactly one entry, whose line is
\* the input buffer as it is and which has no output, leaves the input buffer
\* empty, the recall index null and the completion state null, and leaves the
\* current path, the previous directory and the recall stack as they were.
C22_InterruptEchoes ==
  [][ interrupt
      => /\ history' = Append(history, [in |-> input, out |-> OutUndefined])
         /\ input' = <<>>
         /\ historyIndex' = Null
         /\ completion' = Null
         /\ UNCHANGED <<path, cwdPathPrev, previousCommands>> ]_vars

\* ` pwd ` was in the buffer when the session was interrupted
C22_Witness ==
  /\ history = <<[in |-> L_pwdSpaced, out |-> OutUndefined]>>
  /\ previousCommands = <<>>
  /\ input = <<>>

(* ---------------- C23 ---------------- *)

\* the line in the buffer is a built-in `cd` that succeeds: its target, or for
\* `cd -` the previous directory, is a directory of the tree
successfulCd ==
  \/ typedCdToTarget /\ isDirectoryPath(resolvePath(typedCdTarget))
  \/ typedCdDash /\ cwdPathPrev # Null /\ isDirectoryPath(Val(cwdPathPrev))

\* C23: a step that changes the current path or the previous directory is the
\* submit of a `cd` that succeeds; complete, navigateHistory, interrupt and
\* the submit of any other line or of a failing `cd` leave both as they were.
C23_OnlyCdMoves ==
  [][ (path' # path \/ cwdPathPrev' # cwdPathPrev) => (successfulCd /\ submit) ]_vars

\* `cd docs` has moved the session, then `pwd` and `cp a` have not
C23_Witness ==
  /\ path = P_docs
  /\ cwdPathPrev = Some(P_root)
  /\ previousCommands = <<L_cdDocs, L_pwd>>
  /\ history = <<makeEntry(L_cdDocs, OutUndefined), makeEntry(L_pwd, OutText(P_docs))>>

(* ---------------- C24 ---------------- *)

C25_CommandNotFound ==
  [][ (trim(input) # <<>> /\ ~ isKnown(typedCommand) /\ submit)
      => /\ path' = path
         /\ cwdPathPrev' = cwdPathPrev
         /\ newest(history').out = OutText(S_commandNotFound \o typedCommand) ]_vars

(* ---------------- C26 ---------------- *)

P_docsDocs == <<"/", "d", "o", "c", "s", "/", "d", "o", "c", "s">>
L_cdUp == <<"c", "d", " ", ".", ".">>
L_cdUpDocs == <<"c", "d", " ", "/", ".", ".", "/", "d", "o", "c", "s", "/">>
L_lsUpUp == <<"l", "s", " ", ".", "/", ".", ".", "/", ".", ".">>

\* C26: normalizing twice is normalizing once: for every string p of up to
\* MaxSegments segments (a name, `.`, `..`, empty), taken alone or joined onto
\* the current path, normalizePath(normalizePath(p)) = normalizePath(p); the
\* current path, which is only ever a result of normalizePath, is a fixed point.
C26_NormalizeIdempotent ==
  /\ normalizePath(path) = path
  /\ \A p \in PathInputs :
       /\ normalizePath(normalizePath(p)) = normalizePath(p)
       /\ normalizePath(normalizePath(path \o S_slash \o p))
            = normalizePath(path \o S_slash \o p)

\* a start path that normalizes to the root, then `cd /../docs/`
C26_Witness ==
  /\ path = P_docs
  /\ cwdPathPrev = Some(P_root)
  /\ previousCommands = <<L_cdUpDocs>>
  /\ history = <<makeEntry(L_cdUpDocs, OutUndefined)>>

(* ---------------- C27 ---------------- *)

\* C27: for every current path and every candidate c of up to MaxSegments
\* segments, resolvePath(c) is the current path when c is empty or `.`,
\* normalizePath(c) (whatever the current path) when c starts with `/`, and
\* normalizePath of the current path, `/` and c otherwise.
C27_ResolveCases ==
  \A c \in PathInputs :
    resolvePath(c) = IF c = <<>> \/ c = S_dot THEN path
                     ELSE IF Head(c) = "/" THEN normalizePath(c)
                     ELSE normalizePath(path \o S_slash \o c)

\* the start path /docs/docs, then `cd ..` resolved against it
C27_Witness ==
  /\ path = P_docs
  /\ cwdPathPrev = Some(P_docsDocs)
  /\ previousCommands = <<L_cdUp>>

(* ---------------- C28 ---------------- *)

\* the segments of a string, empty ones included
segmentsOf(p) == split(p, "/")

\* a string made of `.`, `..` and empty segments only
isOnlyDots(p) ==
  \A i \in 1..Len(segmentsOf(p)) : segmentsOf(p)[i] \in { <<>>, S_dot, S_dotdot }

\* the number of `..` segments of a string
ups(p) == Len(SelectSeq(segmentsOf(p), LAMBDA segment : segment = S_dotdot))

\* the number of names of a normalized path
depth(p) == Len(filterBoolean(segmentsOf(p)))

\* C28: `..` with nothing left to pop is ignored: for every string p of up to
\* MaxSegments segments, normalizePath(p) is absolute and normalized, is the
\* same with one more `..` in front, and is `/` when p has only `.`, `..` and
\* empty segments; resolved against the current path, p gives an absolute
\* normalized path, which is `/` when p has only such segments and at least
\* as many `..` as the current path has names.
C28_NoUnderflow ==
  \A p \in PathInputs :
    /\ isNormalized(normalizePath(p))
    /\ normalizePath(S_dotdot \o S_slash \o p) = normalizePath(p)
    /\ isOnlyDots(p) => normalizePath(p) = S_slash
    /\ isNormalized(resolvePath(p))
    /\ (isOnlyDots(p) /\ ups(p) >= depth(path)) => resolvePath(p) = S_slash

\* in /docs, `ls ./../..` has listed the root
C28_Witness ==
  /\ path = P_docs
  /\ history = <<makeEntry(L_lsUpUp,
                   OutText(N_docs \o S_twoSpaces \o N_down \o S_twoSpaces \o N_notes))>>

(* ---------------- C29 ---------------- *)

\* C29: getNodeAt returns the root of the tree for a path with no segment,
\* nothing as soon as the node reached is not a directory or has no entry of
\* its own named as the next segment, and otherwise the node reached by
\* following every segment: for the target of a typed `cd` line it returns
\* what the walk over own entries returns.
C29_LookupOwnEntries ==
  (trim(input) # <<>> /\ typedCommand = S_cd)
    => getNodeAt(resolvePath(typedCdTarget)) = lookup(resolvePath(typedCdTarget))

(* ---------------- C30 ---------------- *)

\* the names of the children of a directory
childNames(node) == { node.entries[i].name : i \in 1..Len(node.entries) }

\* the names of a set in strictly ascending order of their code units
ascending(names) ==
  CHOOSE s \in [1..Cardinality(names) -> names] :
    \A i, j \in 1..Cardinality(names) : i < j => stringLess(s[i], s[j])

\* the target an `ls` line names: its first argument, `.` when it has none
typedLsTarget == IF typedArgs = <<>> THEN S_dot ELSE Head(typedArgs)

\* C30: an `ls` whose target resolves to a directory outputs the names of the
\* children of that directory, each once, in strictly ascending order and
\* joined by two spaces, and outputs `(empty)` when the directory has no child.
C30_LsSorted ==
  [][ (/\ trim(input) # <<>>
       /\ typedCommand = S_ls
       /\ isDirectoryPath(resolvePath(typedLsTarget))
       /\ submit)
      => newest(history').out =
           OutText(LET names == childNames(Val(lookup(resolvePath(typedLsTarget))))
                   IN IF names = {} THEN S_emptyDir
                      ELSE join(ascending(names), S_twoSpaces)) ]_vars

(* ---------------- C31 ---------------- *)

isTextFilePath(p) ==
  lookup(p) # Null /\ Val(lookup(p)).kind = "file" /\ Val(lookup(p)).fileType = "text"

\* C31: a submitted `cat` leaves the path, the previous directory and the tree
\* as they are and outputs `cat: missing file operand` when it has no operand,
\* `cat: <target>: No such file` when the target resolves to no node of the
\* tree, `cat: <target>: Is a directory` when it resolves to a directory, and
\* the content when it resolves to a text file.
C31_CatClassifies ==
  [][ (trim(input) # <<>> /\ typedCommand = S_cat /\ submit)
      => /\ path' = path
         /\ cwdPathPrev' = cwdPathPrev
         /\ fs' = fs
         /\ typedArgs = <<>>
              => newest(history').out = OutText(S_catMissingOperand)
         /\ (typedArgs # <<>> /\ isMissing(resolvePath(Head(typedArgs))))
              => newest(history').out =
                   OutText(S_catColon \o Head(typedArgs) \o S_noSuchFile)
         /\ (typedArgs # <<>> /\ isDirectoryPath(resolvePath(Head(typedArgs))))
              => newest(history').out =
                   OutText(S_catColon \o Head(typedArgs) \o S_isADirectory)
         /\ (typedArgs # <<>> /\ isTextFilePath(resolvePath(Head(typedArgs))))
              => newest(history').out =
                   OutText(Val(lookup(resolvePath(Head(typedArgs)))).content) ]_vars

(* ---------------- C32 ---------------- *)

L_cd == <<"c", "d">>

\* C32: when the previous directory is a path that does not resolve to a
\* directory of the tree, a submitted `cd -` outputs
\* `cd: <previous directory>: No such file or directory` and leaves the
\* current path and the previous directory as they are.
C32_CdDashGone ==
  [][ (typedCdDash /\ cwdPathPrev # Null /\ ~ isDirectoryPath(Val(cwdPathPrev)) /\ submit)
      => /\ path' = path
         /\ cwdPathPrev' = cwdPathPrev
         /\ newest(history').out =
              OutText(S_cdColon \o Val(cwdPathPrev) \o S_noSuchFileOrDirectory) ]_vars

\* started at /home, which is not in the tree: `cd`, then `cd -`
C32_Witness ==
  /\ path = P_root
  /\ cwdPathPrev = Some(P_home)
  /\ history = <<makeEntry(L_cd, OutUndefined),
                 makeEntry(L_cdDash, OutText(S_cdColon \o P_home \o S_noSuchFileOrDirectory))>>

(* ---------------- C33 ---------------- *)

\* the last token of a buffer
lastTokenOf(buffer) == tokensOf(buffer)[Len(tokensOf(buffer))]

\* a completion request that puts the single candidate of an argument in the
\* buffer, or a step of a path cycle
rewritesArgument ==
  \/ freshRequest /\ ~ typingCommand /\ completion' = Null /\ input' # input
  \/ cycleUsable /\ Val(completion).kind = "path"

\* C33: when a completion request rewrites the argument of a command that
\* completes paths (the single candidate, or a step of a cycle), the last
\* token of the new buffer, resolved against the current path, is a node of
\* the tree that the file scope of the command accepts.
C33_RewrittenTokenExists ==
  [][ (rewritesArgument /\ complete)
      => LET node == lookup(resolvePath(lastTokenOf(input')))
         IN /\ node # Null
            /\ scopeAccepts(declaredScope(typedCommand), Val(node)) ]_vars

(* ---------------- C34 ---------------- *)

\* the known command names that start with what is typed, each once
matchingNames == { allCommands[i] : i \in { j \in 1..Len(allCommands) :
                                            startsWith(allCommands[j], typedCommand) } }

\* C34: the options of the completion state a step leaves are pairwise
\* distinct, and a completion request on a lone command prefix that exactly
\* one known command name starts with puts that name in the buffer and leaves
\* no completion state.
C34_DistinctOptions ==
  [][ /\ completion' # Null
           => \A i, j \in 1..Len(Val(completion').options) :
                i # j => Val(completion').options[i] # Val(completion').options[j]
      /\ (freshRequest /\ typingCommand /\ Cardinality(matchingNames) = 1 /\ complete)
           => /\ input' \in matchingNames
              /\ completion' = Null ]_vars

(* ---------------- C35 ---------------- *)

L_catDocsB == <<"c", "a", "t", " ", "d", "o", "c", "s", "/", "b">>

\* a completion state without its index and its seed
restOf(c) == [c EXCEPT !.index = -1, !.seedInput = <<>>]

\* C35: the completion state a step leaves, when there is one, has at least two
\* options and an index from -1 to the number of options minus one, and a step
\* of a cycle leaves a state that differs from the one it found in the index
\* and the seed only.
C35_StateWellFormed ==
  [][ /\ completion' # Null
           => /\ Len(Val(completion').options) >= 2
              /\ Val(completion').index \in -1..(Len(Val(completion').options) - 1)
      /\ (cycleUsable /\ complete)
           => /\ completion' # Null
              /\ restOf(Val(completion')) = restOf(Val(completion)) ]_vars

\* `cat docs/`, Tab, Tab, Tab: the second of the three files of /docs
C35_Witness ==
  /\ input = L_catDocsB
  /\ completion # Null
  /\ Val(completion).kind = "path"
  /\ Val(completion).index = 1
  /\ Val(completion).basePart = N_docs
  /\ Val(completion).options = <<N_a, N_b, N_web>>
  /\ Val(completion).seedInput = L_catDocsB

(* ---------------- C36 ---------------- *)

\* C36: the recall index is null or a position of the recall stack, counted
\* from 0; navigateHistory in either direction on an empty recall stack, and
\* navigateHistory down with a null recall index, leave the recall index and
\* the input buffer as they are.
C36_IndexInRange ==
  /\ historyIndex # Null => Val(historyIndex) \in 0..(Len(previousCommands) - 1)
  /\ \A direction \in {"up", "down"} :
       (previousCommands = <<>> \/ (direction = "down" /\ historyIndex = Null))
         => navigateResult(direction) = Navigated(historyIndex, input)

\* two lines submitted, ArrowUp twice, then `ls` typed over the recalled line
C36_Witness ==
  /\ previousCommands = <<S_pwd, S_ls>>
  /\ historyIndex = Some(0)
  /\ input = S_ls
  /\ Len(history) = 2

(* ---------------- C37 ---------------- *)

L_cdNotes == <<"c", "d", " ", "n", "o", "t", "e", "s">>

\* C37: in a session whose start path resolves to a directory of the tree, the
\* current path resolves to a directory, the current-directory node is never
\* null, and the previous directory, when there is one, resolves to a
\* directory.
C37_AlwaysInDirectory ==
  /\ isDirectoryPath(path)
  /\ cwdNode # Null
  /\ cwdNode = lookup(path)
  /\ cwdPathPrev # Null => isDirectoryPath(Val(cwdPathPrev))

\* `cd docs` at the root, then `cd notes`, which names a file of the root only
C37_Witness ==
  /\ path = P_docs
  /\ cwdPathPrev = Some(P_root)
  /\ previousCommands = <<L_cdDocs, L_cdNotes>>
  /\ Len(history) = 2

(* ---------------- C38 ---------------- *)

\* the line in the buffer is a `cd -` that goes back
successfulCdDash == typedCdDash /\ cwdPathPrev # Null /\ isDirectoryPath(Val(cwdPathPrev))

\* every entry of the scrollback is a submitted line of the recall stack, the
\* newest is a `cd -` that went back (it printed a path) and the one before is
\* a `cd <target>` that moved (it printed nothing)
backAfterMove ==
  LET n == Len(history)
  IN /\ n >= 2
     /\ Len(previousCommands) = n
     /\ \A i \in 1..n : history[i].in = previousCommands[i]
     /\ history[n].in = L_cdDash
     /\ history[n].out.type = "string"
     /\ startsWith(history[n].out.value, S_slash)
     /\ Head(tokensOf(history[n - 1].in)) = S_cd
     /\ Len(tokensOf(history[n - 1].in)) = 2
     /\ tokensOf(history[n - 1].in)[2] # S_dash
     /\ history[n - 1].out = OutUndefined

\* the path that `cd -` printed: the one the move started from
movedFrom == history[Len(history)].out.value

\* the path the move led to
movedTo ==
  LET target == tokensOf(history[Len(history) - 1].in)[2]
  IN IF startsWith(target, S_slash) THEN normalizePath(target)
     ELSE normalizePath(movedFrom \o S_slash \o target)

\* C38: a `cd -` that goes back swaps the current path and the previous
\* directory, and a second one right after the first puts both back: after a
\* move and two `cd -`, the current path is where the move led and the
\* previous directory is where it started.
C38_CdDashSwaps ==
  [][ (successfulCdDash /\ submitLine)
      => /\ path' = Val(cwdPathPrev)
         /\ cwdPathPrev' = Some(path)
         /\ backAfterMove => (path' = movedTo /\ cwdPathPrev' = Some(movedFrom)) ]_vars

\* `cd docs` at the root, `cd -`, `cd -`
C38_Witness ==
  /\ path = P_docs
  /\ cwdPathPrev = Some(P_root)
  /\ previousCommands = <<L_cdDocs, L_cdDash, L_cdDash>>
  /\ history = <<makeEntry(L_cdDocs, OutUndefined),
                 makeEntry(L_cdDash, OutText(P_root)),
                 makeEntry(L_cdDash, OutText(P_docs))>>

====
